---- MODULE Spec2Model ----
(***************************************************************************)
(* Lexical front end of ubel_stratum: the Logos automaton, the hand-written *)
(* string and comment scanners, the ErrorManager and the LogosLexer driver. *)
(* Text is a sequence of characters; every character has a UTF-8 byte       *)
(* length, so byte offsets (spans, cursors, slices) and character indexes   *)
(* (chars().nth) are different numbers as soon as a multi-byte character    *)
(* occurs.                                                                  *)
(***************************************************************************)
EXTENDS Integers, Sequences, FiniteSets, TLC

\* ------------------------------------------------------------------------
\* Characters
\* ------------------------------------------------------------------------
QUOTE == "\""
BSLASH == "\\"
NL == "\n"
TAB == "\t"
CR == "\r"
\* a two-byte character (U+00E9)
MB == "<U+00E9>"
\* a character no automaton rule starts with (backtick)
BT == "<BACKTICK>"
\* char::from(0), what char_at yields past the last character
NUL == "<NUL>"

\* ------------------------------------------------------------------------
\* Bounds
\* ------------------------------------------------------------------------
\* inputs are concatenations of at most MaxAtoms atoms
MaxAtoms == 3
\* the driver stops being followed once it holds this many tokens
MaxTokens == 104
\* ... or once its line or column reaches this number
MaxCursor == 106

\* ------------------------------------------------------------------------
\* Strings as character sequences: byte layout
\* ------------------------------------------------------------------------
Utf8Len(ch) == IF ch = MB THEN 2 ELSE 1

RECURSIVE ByteOffset(_, _)
\* byte offset of the character with 0-based index k (k = Len(s): one past the end)
ByteOffset(s, k) == IF k = 0 THEN 0 ELSE Utf8Len(s[k]) + ByteOffset(s, k - 1)

ByteLen(s) == ByteOffset(s, Len(s))

IsCharBoundary(s, b) == \E k \in 0..Len(s) : ByteOffset(s, k) = b

CharIndex(s, b) == CHOOSE k \in 0..Len(s) : ByteOffset(s, k) = b

\* &s[a..b] succeeds
SliceOk(s, a, b) == a <= b /\ b <= ByteLen(s) /\ IsCharBoundary(s, a) /\ IsCharBoundary(s, b)

\* &s[a..b] when it succeeds
StrSlice(s, a, b) == SubSeq(s, CharIndex(s, a) + 1, CharIndex(s, b))

\* s.chars().nth(pos), NUL when there is no such character
char_at(s, pos) == IF pos < Len(s) THEN s[pos + 1] ELSE NUL

IsWhitespace(ch) == ch \in {" ", NL, TAB, CR}

RECURSIVE TrimStart(_)
TrimStart(s) == IF s # << >> /\ IsWhitespace(Head(s)) THEN TrimStart(Tail(s)) ELSE s

RECURSIVE TrimEnd(_)
TrimEnd(s) == IF s # << >> /\ IsWhitespace(s[Len(s)]) THEN TrimEnd(SubSeq(s, 1, Len(s) - 1)) ELSE s

\* str::trim
Trim(s) == TrimEnd(TrimStart(s))

\* ------------------------------------------------------------------------
\* Span, Token, LexicalError
\* ------------------------------------------------------------------------
Span(start, end, ln, col) == [start |-> start, end |-> end, line |-> ln, column |-> col]

Min(a, b) == IF a <= b THEN a ELSE b

Max(a, b) == IF a >= b THEN a ELSE b

\* Span::merge keeping its own end
merge_keeps_end(sp, other) ==
    [start |-> Min(sp.start, other.start), end |-> sp.end, line |-> sp.line, column |-> sp.column]

\* Span::merge
merge(sp, other) ==
    [start |-> Min(sp.start, other.start), end |-> Max(sp.end, other.end),
     line |-> sp.line, column |-> sp.column]

\* Token::new; value is the payload of the kind (empty when it has none)
Token(kind, value, span, lexeme) == [kind |-> kind, value |-> value, span |-> span, lexeme |-> lexeme]

\* Token::error
TokenError(message, span) == [kind |-> "Error", value |-> message, span |-> span, lexeme |-> message]

NoFields ==
    [ch |-> "", string_type |-> "", nesting_level |-> 0, text |-> << >>, reason |-> "",
     sequence |-> << >>, valid_escapes |-> << >>, message |-> "", suggestion |-> ""]

UnexpectedChar(ch, span) ==
    [NoFields EXCEPT !.ch = ch, !.suggestion = "Remove this character or check for typos"]
        @@ [kind |-> "UnexpectedChar", span |-> span]

UnterminatedString(span, string_type) ==
    [NoFields EXCEPT !.string_type = string_type] @@ [kind |-> "UnterminatedString", span |-> span]

UnterminatedBlockComment(span, nesting_level) ==
    [NoFields EXCEPT !.nesting_level = nesting_level] @@ [kind |-> "UnterminatedBlockComment", span |-> span]

\* the variant exists; no scanner and no arm of the driver constructs it
InvalidNumber(text, span, reason) ==
    [NoFields EXCEPT !.text = text, !.reason = reason] @@ [kind |-> "InvalidNumber", span |-> span]

InvalidEscape(sequence, span, valid_escapes) ==
    [NoFields EXCEPT !.sequence = sequence, !.valid_escapes = valid_escapes]
        @@ [kind |-> "InvalidEscape", span |-> span]

InvalidInterpolation(span) ==
    [NoFields EXCEPT !.message = "Unclosed interpolation expression", !.suggestion = "Add closing }"]
        @@ [kind |-> "InvalidInterpolation", span |-> span]

RECURSIVE Join(_, _)
\* [String]::join: the pieces of texts with sep between them
Join(texts, sep) ==
    IF texts = << >> THEN << >>
    ELSE IF Len(texts) = 1 THEN <<texts[1]>>
    ELSE <<texts[1], sep>> \o Join(Tail(texts), sep)

\* LexicalError::suggestion: the pieces of the suggested fix, << >> for None
suggestion(err) ==
    CASE err.kind = "UnexpectedChar" -> <<err.suggestion>>
      [] err.kind = "UnterminatedString" ->
            (CASE err.string_type = "Normal" -> <<"Add closing quote \"">>
               [] err.string_type = "Interpolated" -> <<"Add closing quote \" to interpolated string">>
               [] err.string_type = "Verbatim" -> <<"Add closing quote \" to verbatim string">>
               [] err.string_type = "InterpolatedVerbatim" ->
                     <<"Add closing quote \" to interpolated verbatim string">>)
      [] err.kind = "UnterminatedBlockComment" -> <<"Add closing */">>
      [] err.kind = "InvalidNumber" ->
            IF \E i \in 1..(Len(err.text) - 1) : err.text[i] = "." /\ err.text[i + 1] = "."
            THEN <<"Remove extra decimal point">>
            ELSE IF err.text = <<"0", "x">> THEN <<"Add hex digits after 0x">>
            ELSE IF err.text = <<"0", "b">> THEN <<"Add binary digits after 0b">>
            ELSE << >>
      [] err.kind = "InvalidEscape" -> <<"Valid escape sequences: ">> \o Join(err.valid_escapes, ", ")
      [] err.kind = "InvalidInterpolation" -> <<err.suggestion>>

\* LexicalError::message, which is also its Display form: the pieces of the text
message(err) ==
    CASE err.kind = "UnexpectedChar" -> <<"Unexpected character '", err.ch, "'">>
      [] err.kind = "UnterminatedString" ->
            (CASE err.string_type = "Normal" -> <<"Unterminated string literal">>
               [] err.string_type = "Interpolated" -> <<"Unterminated interpolated string">>
               [] err.string_type = "Verbatim" -> <<"Unterminated verbatim string">>
               [] err.string_type = "InterpolatedVerbatim" -> <<"Unterminated interpolated verbatim string">>)
      [] err.kind = "UnterminatedBlockComment" ->
            <<"Unterminated block comment (nesting level: ", ToString(err.nesting_level), ")">>
      [] err.kind = "InvalidNumber" -> <<"Invalid number literal '">> \o err.text \o <<"': ", err.reason>>
      [] err.kind = "InvalidEscape" -> <<"Invalid escape sequence '">> \o err.sequence \o <<"'">>
      [] err.kind = "InvalidInterpolation" -> <<err.message>>

\* ------------------------------------------------------------------------
\* What a hand-written scanner returns: Ok((token, pos, line, col)),
\* Err(fault), or a panic raised by a slice of the input
\* ------------------------------------------------------------------------
NoToken == Token("", << >>, Span(0, 0, 0, 0), << >>)

NoFault == NoFields @@ [kind |-> "", span |-> Span(0, 0, 0, 0)]

ParseOk(token, pos, ln, col) ==
    [tag |-> "Ok", token |-> token, pos |-> pos, line |-> ln, column |-> col, err |-> NoFault]

ParseErr(err) ==
    [tag |-> "Err", token |-> NoToken, pos |-> 0, line |-> 0, column |-> 0, err |-> err]

ParsePanic ==
    [tag |-> "Panic", token |-> NoToken, pos |-> 0, line |-> 0, column |-> 0, err |-> NoFault]

\* ------------------------------------------------------------------------
\* CommentParser
\* ------------------------------------------------------------------------
RECURSIVE BlockCommentLoop(_, _, _)
\* the while loop of parse_block_comment; n is self.input.len(), in bytes
BlockCommentLoop(inp, n, st) ==
    IF ~(st.position < n /\ st.depth > 0) THEN st
    ELSE LET ch == char_at(inp, st.position) IN
         IF ch = "/" /\ st.position + 1 < n /\ char_at(inp, st.position + 1) = "*"
         THEN BlockCommentLoop(inp, n, [st EXCEPT !.depth = @ + 1,
                                                  !.content = @ \o <<"/", "*">>,
                                                  !.position = @ + 2,
                                                  !.column = @ + 2])
         ELSE IF ch = "*" /\ st.position + 1 < n /\ char_at(inp, st.position + 1) = "/"
         THEN BlockCommentLoop(inp, n, [st EXCEPT !.depth = @ - 1,
                                                  !.content = IF st.depth - 1 > 0 THEN @ \o <<"*", "/">> ELSE @,
                                                  !.position = @ + 2,
                                                  !.column = @ + 2])
         ELSE BlockCommentLoop(inp, n, [st EXCEPT !.content = Append(@, ch),
                                                  !.position = @ + 1,
                                                  !.line = IF ch = NL THEN @ + 1 ELSE @,
                                                  !.column = IF ch = NL THEN 1 ELSE @ + 1])

parse_block_comment(inp, start_pos, start_line, start_column) ==
    LET st == BlockCommentLoop(inp, ByteLen(inp),
                  [position |-> start_pos + 2, line |-> start_line, column |-> start_column + 2,
                   depth |-> 1, content |-> << >>])
    IN  IF st.depth = 0
        THEN IF ~SliceOk(inp, start_pos, st.position) THEN ParsePanic
             ELSE ParseOk(Token("Comment", st.content,
                                Span(start_pos, st.position, start_line, start_column),
                                StrSlice(inp, start_pos, st.position)),
                          st.position, st.line, st.column)
        ELSE ParseErr(UnterminatedBlockComment(
                          Span(start_pos, st.position, start_line, start_column), st.depth))

RECURSIVE DocCommentLoop(_, _, _)
\* the while loop of parse_doc_comment; closed tells a closing marker was consumed
DocCommentLoop(inp, n, st) ==
    IF ~(st.position < n) THEN st
    ELSE LET ch == char_at(inp, st.position) IN
         IF ch = "*" /\ st.position + 1 < n /\ char_at(inp, st.position + 1) = "/"
         THEN [st EXCEPT !.position = @ + 2, !.column = @ + 2, !.closed = TRUE]
         ELSE DocCommentLoop(inp, n, [st EXCEPT !.content = Append(@, ch),
                                                !.position = @ + 1,
                                                !.line = IF ch = NL THEN @ + 1 ELSE @,
                                                !.column = IF ch = NL THEN 1 ELSE @ + 1])

parse_doc_comment(inp, start_pos, start_line, start_column, start_marker) ==
    LET marker_len == Len(start_marker)
        st == DocCommentLoop(inp, ByteLen(inp),
                  [position |-> start_pos + marker_len, line |-> start_line,
                   column |-> start_column + marker_len, content |-> << >>, closed |-> FALSE])
    IN  IF st.closed
        THEN IF ~SliceOk(inp, start_pos, st.position) THEN ParsePanic
             ELSE ParseOk(Token("DocComment", Trim(st.content),
                                Span(start_pos, st.position, start_line, start_column),
                                StrSlice(inp, start_pos, st.position)),
                          st.position, st.line, st.column)
        ELSE ParseErr(UnterminatedBlockComment(
                          Span(start_pos, st.position, start_line, start_column), 1))

\* ------------------------------------------------------------------------
\* StringParser
\* ------------------------------------------------------------------------
\* InterpolationPart::Text, InterpolationPart::Expr
TextPart(text) == [tag |-> "Text", text |-> text]

ExprPart(text) == [tag |-> "Expr", text |-> text]

RECURSIVE InterpolationExprLoop(_, _, _)
\* the while loop of parse_interpolation_expr
InterpolationExprLoop(inp, n, st) ==
    IF ~(st.position < n /\ st.depth > 0) THEN st
    ELSE LET ch == char_at(inp, st.position) IN
         CASE ch = "{" ->
                InterpolationExprLoop(inp, n, [st EXCEPT !.depth = @ + 1, !.expr = Append(@, ch),
                                                         !.position = @ + 1, !.column = @ + 1])
           [] ch = "}" ->
                InterpolationExprLoop(inp, n, [st EXCEPT !.depth = @ - 1,
                                                         !.expr = IF st.depth - 1 > 0 THEN Append(@, ch) ELSE @,
                                                         !.position = @ + 1, !.column = @ + 1])
           [] ch = NL ->
                InterpolationExprLoop(inp, n, [st EXCEPT !.expr = Append(@, ch), !.position = @ + 1,
                                                         !.line = @ + 1, !.column = 1])
           [] OTHER ->
                InterpolationExprLoop(inp, n, [st EXCEPT !.expr = Append(@, ch), !.position = @ + 1,
                                                         !.column = @ + 1])

\* returns the trimmed expression and the cursor behind it, or the fault
parse_interpolation_expr(inp, n, position, ln, col) ==
    LET st == InterpolationExprLoop(inp, n,
                  [position |-> position + 1, line |-> ln, column |-> col + 1, depth |-> 1, expr |-> << >>])
    IN  IF st.depth = 0
        THEN [ok |-> TRUE, expr |-> Trim(st.expr), position |-> st.position, line |-> st.line,
              column |-> st.column, err |-> NoFault]
        ELSE [ok |-> FALSE, expr |-> << >>, position |-> st.position, line |-> st.line,
              column |-> st.column,
              err |-> InvalidInterpolation(Span(st.position, st.position, st.line, st.column))]

\* the valid_escapes parse_interpolated_string gives an InvalidEscape
ValidEscapes ==
    << <<BSLASH, "n">>, <<BSLASH, "t">>, <<BSLASH, "r">>, <<BSLASH, BSLASH>>, <<BSLASH, QUOTE>>,
       <<BSLASH, "{">>, <<BSLASH, "}">> >>

\* the escapes of parse_interpolated_string
IsInterpolatedEscape(ch) == ch \in {"n", "t", "r", BSLASH, QUOTE, "{", "}"}

InterpolatedEscape(ch) ==
    CASE ch = "n" -> NL
      [] ch = "t" -> TAB
      [] ch = "r" -> CR
      [] OTHER -> ch

\* the flush, had it pushed the pending text even when it is empty
FlushTextAlways(parts, current_text) == Append(parts, TextPart(current_text))

\* parts with the pending text flushed into a Text part
FlushText(parts, current_text) ==
    IF current_text # << >> THEN Append(parts, TextPart(current_text)) ELSE parts

RECURSIVE InterpolatedLoop(_, _, _)
\* the while loop of parse_interpolated_string; done is "" while looping,
\* "Ok" at the closing quote, "Err" when a fault was returned from inside
InterpolatedLoop(inp, n, st) ==
    IF st.done # "" \/ ~(st.position < n) THEN st
    ELSE LET ch == char_at(inp, st.position) IN
         CASE ch = QUOTE /\ st.depth = 0 ->
                [st EXCEPT !.parts = FlushText(@, st.current_text),
                           !.position = @ + 1, !.column = @ + 1, !.done = "Ok"]
           [] ch = "{" /\ st.depth = 0 ->
                LET e == parse_interpolation_expr(inp, n, st.position, st.line, st.column) IN
                IF e.ok
                THEN InterpolatedLoop(inp, n, [st EXCEPT
                         !.parts = Append(FlushText(@, st.current_text), ExprPart(e.expr)),
                         !.current_text = << >>,
                         !.position = e.position, !.line = e.line, !.column = e.column])
                ELSE [st EXCEPT !.done = "Err", !.err = e.err]
           [] ch = "{" /\ st.depth > 0 ->
                InterpolatedLoop(inp, n, [st EXCEPT !.depth = @ + 1, !.current_text = Append(@, ch),
                                                    !.position = @ + 1, !.column = @ + 1])
           [] ch = "}" /\ st.depth > 0 ->
                InterpolatedLoop(inp, n, [st EXCEPT !.depth = @ - 1, !.current_text = Append(@, ch),
                                                    !.position = @ + 1, !.column = @ + 1])
           [] ch = BSLASH ->
                IF st.position + 1 < n
                THEN LET escaped == char_at(inp, st.position + 1) IN
                     IF IsInterpolatedEscape(escaped)
                     THEN InterpolatedLoop(inp, n, [st EXCEPT
                              !.current_text = Append(@, InterpolatedEscape(escaped)),
                              !.position = @ + 2, !.column = @ + 2])
                     ELSE [st EXCEPT !.done = "Err",
                                     !.err = InvalidEscape(<<BSLASH, escaped>>,
                                                 Span(st.position, st.position + 2, st.line, st.column),
                                                 ValidEscapes)]
                ELSE InterpolatedLoop(inp, n, [st EXCEPT !.position = @ + 1, !.column = @ + 1])
           [] ch = NL ->
                InterpolatedLoop(inp, n, [st EXCEPT !.current_text = Append(@, ch), !.position = @ + 1,
                                                    !.line = @ + 1, !.column = 1])
           [] OTHER ->
                InterpolatedLoop(inp, n, [st EXCEPT !.current_text = Append(@, ch), !.position = @ + 1,
                                                    !.column = @ + 1])

\* the common tail of the two interpolated scanners
InterpolatedResult(inp, st, start_pos, start_line, start_column, string_type) ==
    CASE st.done = "Ok" ->
            IF ~SliceOk(inp, start_pos, st.position) THEN ParsePanic
            ELSE ParseOk(Token("InterpolatedString", st.parts,
                               Span(start_pos, st.position, start_line, start_column),
                               StrSlice(inp, start_pos, st.position)),
                         st.position, st.line, st.column)
      [] st.done = "Err" -> ParseErr(st.err)
      [] OTHER -> ParseErr(UnterminatedString(
                               Span(start_pos, st.position, start_line, start_column), string_type))

parse_interpolated_string(inp, start_pos, start_line, start_column) ==
    LET st == InterpolatedLoop(inp, ByteLen(inp),
                  [position |-> start_pos + 2, line |-> start_line, column |-> start_column + 2,
                   parts |-> << >>, current_text |-> << >>, depth |-> 0, done |-> "", err |-> NoFault])
    IN  InterpolatedResult(inp, st, start_pos, start_line, start_column, "Interpolated")

RECURSIVE VerbatimLoop(_, _, _)
\* the while loop of parse_verbatim_string
VerbatimLoop(inp, n, st) ==
    IF st.closed \/ ~(st.position < n) THEN st
    ELSE LET ch == char_at(inp, st.position) IN
         CASE ch = QUOTE ->
                IF st.position + 1 < n /\ char_at(inp, st.position + 1) = QUOTE
                THEN VerbatimLoop(inp, n, [st EXCEPT !.content = Append(@, QUOTE),
                                                     !.position = @ + 2, !.column = @ + 2])
                ELSE [st EXCEPT !.position = @ + 1, !.column = @ + 1, !.closed = TRUE]
           [] ch = NL ->
                VerbatimLoop(inp, n, [st EXCEPT !.content = Append(@, ch), !.position = @ + 1,
                                                !.line = @ + 1, !.column = 1])
           [] OTHER ->
                VerbatimLoop(inp, n, [st EXCEPT !.content = Append(@, ch), !.position = @ + 1,
                                                !.column = @ + 1])

parse_verbatim_string(inp, start_pos, start_line, start_column) ==
    LET st == VerbatimLoop(inp, ByteLen(inp),
                  [position |-> start_pos + 2, line |-> start_line, column |-> start_column + 2,
                   content |-> << >>, closed |-> FALSE])
    IN  IF st.closed
        THEN IF ~SliceOk(inp, start_pos, st.position) THEN ParsePanic
             ELSE ParseOk(Token("VerbatimString", st.content,
                                Span(start_pos, st.position, start_line, start_column),
                                StrSlice(inp, start_pos, st.position)),
                          st.position, st.line, st.column)
        ELSE ParseErr(UnterminatedString(
                          Span(start_pos, st.position, start_line, start_column), "Verbatim"))

RECURSIVE InterpolatedVerbatimLoop(_, _, _)
\* the while loop of parse_interpolated_verbatim_string
InterpolatedVerbatimLoop(inp, n, st) ==
    IF st.done # "" \/ ~(st.position < n) THEN st
    ELSE LET ch == char_at(inp, st.position) IN
         CASE ch = QUOTE ->
                IF st.position + 1 < n /\ char_at(inp, st.position + 1) = QUOTE
                THEN InterpolatedVerbatimLoop(inp, n, [st EXCEPT !.current_text = Append(@, QUOTE),
                                                                 !.position = @ + 2, !.column = @ + 2])
                ELSE [st EXCEPT !.parts = FlushText(@, st.current_text),
                                !.position = @ + 1, !.column = @ + 1, !.done = "Ok"]
           [] ch = "{" ->
                LET e == parse_interpolation_expr(inp, n, st.position, st.line, st.column) IN
                IF e.ok
                THEN InterpolatedVerbatimLoop(inp, n, [st EXCEPT
                         !.parts = Append(FlushText(@, st.current_text), ExprPart(e.expr)),
                         !.current_text = << >>,
                         !.position = e.position, !.line = e.line, !.column = e.column])
                ELSE [st EXCEPT !.done = "Err", !.err = e.err]
           [] ch = NL ->
                InterpolatedVerbatimLoop(inp, n, [st EXCEPT !.current_text = Append(@, ch),
                                                            !.position = @ + 1,
                                                            !.line = @ + 1, !.column = 1])
           [] OTHER ->
                InterpolatedVerbatimLoop(inp, n, [st EXCEPT !.current_text = Append(@, ch),
                                                            !.position = @ + 1, !.column = @ + 1])

parse_interpolated_verbatim_string(inp, start_pos, start_line, start_column) ==
    LET st == InterpolatedVerbatimLoop(inp, ByteLen(inp),
                  [position |-> start_pos + 3, line |-> start_line, column |-> start_column + 3,
                   parts |-> << >>, current_text |-> << >>, depth |-> 0, done |-> "", err |-> NoFault])
    IN  InterpolatedResult(inp, st, start_pos, start_line, start_column, "InterpolatedVerbatim")

\* ------------------------------------------------------------------------
\* The Logos automaton (enum LogosToken)
\* ------------------------------------------------------------------------
Letters == {"a", "b", "c", "d", "e", "f", "g", "h", "i", "j", "k", "l", "m", "n", "o", "p", "q",
            "r", "s", "t", "u", "v", "w", "x", "y", "z",
            "A", "B", "C", "D", "E", "F", "G", "H", "I", "J", "K", "L", "M", "N", "O", "P", "Q",
            "R", "S", "T", "U", "V", "W", "X", "Y", "Z"}

Digits == {"0", "1", "2", "3", "4", "5", "6", "7", "8", "9"}

IsIdentStart(ch) == ch \in Letters \cup {"_"}

IsIdentContinue(ch) == ch \in Letters \cup Digits \cup {"_"}

\* the #[token] rules of the operators and delimiters: <<spelling, kind>>
FixedTokens ==
    { << <<"<", "<", "=">>, "LeftShiftEqual" >>, << <<">", ">", "=">>, "RightShiftEqual" >>,
      << <<"<", "<">>, "LeftShift" >>, << <<">", ">">>, "RightShift" >>,
      << <<"=", "=">>, "EqualEqual" >>, << <<"!", "=">>, "BangEqual" >>,
      << <<"<", "=">>, "LessEqual" >>, << <<">", "=">>, "GreaterEqual" >>,
      << <<"&", "&">>, "AmpAmp" >>, << <<"|", "|">>, "PipePipe" >>,
      << <<"?", ".">>, "QuestionDot" >>, << <<"=", ">">>, "FatArrow" >>,
      << <<":", "=">>, "ColonEqual" >>, << <<"+", "=">>, "PlusEqual" >>,
      << <<"-", "=">>, "MinusEqual" >>, << <<"*", "=">>, "StarEqual" >>,
      << <<"/", "=">>, "SlashEqual" >>, << <<"%", "=">>, "PercentEqual" >>,
      << <<"&", "=">>, "AmpEqual" >>, << <<"|", "=">>, "PipeEqual" >>,
      << <<"^", "=">>, "CaretEqual" >>,
      << <<"+">>, "Plus" >>, << <<"-">>, "Minus" >>, << <<"*">>, "Star" >>, << <<"/">>, "Slash" >>,
      << <<"%">>, "Percent" >>, << <<"&">>, "Amp" >>, << <<"|">>, "Pipe" >>, << <<"^">>, "Caret" >>,
      << <<"~">>, "Tilde" >>, << <<"<">>, "Less" >>, << <<">">>, "Greater" >>, << <<"!">>, "Bang" >>,
      << <<"?">>, "Question" >>, << <<"=">>, "Equal" >>,
      << <<"(">>, "LeftParen" >>, << <<")">>, "RightParen" >>, << <<"{">>, "LeftBrace" >>,
      << <<"}">>, "RightBrace" >>, << <<"[">>, "LeftBracket" >>, << <<"]">>, "RightBracket" >>,
      << <<",">>, "Comma" >>, << <<".">>, "Dot" >>, << <<":">>, "Colon" >>, << <<";">>, "Semicolon" >>,
      << <<"@">>, "At" >> }

\* src has spelling at 0-based index i
HasPrefixAt(src, i, spelling) ==
    i + Len(spelling) <= Len(src) /\ SubSeq(src, i + 1, i + Len(spelling)) = spelling

\* the fixed tokens that match at i
FixedMatches(src, i) == {t \in FixedTokens : HasPrefixAt(src, i, t[1])}

\* the shortest of them: the first rule that matches wins, whatever follows
ShortestFixed(src, i) ==
    CHOOSE t \in FixedMatches(src, i) : \A u \in FixedMatches(src, i) : Len(t[1]) <= Len(u[1])

\* the longest of them
LongestFixed(src, i) ==
    CHOOSE t \in FixedMatches(src, i) : \A u \in FixedMatches(src, i) : Len(u[1]) <= Len(t[1])

RECURSIVE SkipBlanks(_, _)
\* #[logos(skip r"[ \t]+")]
SkipBlanks(src, i) ==
    IF i < Len(src) /\ src[i + 1] \in {" ", TAB} THEN SkipBlanks(src, i + 1) ELSE i

RECURSIVE IdentEnd(_, _)
\* [a-zA-Z_][a-zA-Z0-9_]*
IdentEnd(src, i) ==
    IF i < Len(src) /\ IsIdentContinue(src[i + 1]) THEN IdentEnd(src, i + 1) ELSE i

RECURSIVE LineCommentEnd(_, _)
\* //[^\n]*
LineCommentEnd(src, i) ==
    IF i < Len(src) /\ src[i + 1] # NL THEN LineCommentEnd(src, i + 1) ELSE i

RECURSIVE StringLitScan(_, _)
\* "([^"\\]|\\["\\nrt])*" read from index j, behind the opening quote:
\* ok with the index behind the closing quote, or the index where the rule fails
StringLitScan(src, j) ==
    IF j >= Len(src) THEN [ok |-> FALSE, end |-> Len(src)]
    ELSE LET ch == src[j + 1] IN
         CASE ch = QUOTE -> [ok |-> TRUE, end |-> j + 1]
           [] ch = BSLASH ->
                IF j + 1 < Len(src) /\ src[j + 2] \in {QUOTE, BSLASH, "n", "r", "t"}
                THEN StringLitScan(src, j + 2)
                ELSE [ok |-> FALSE, end |-> j + 1]
           [] OTHER -> StringLitScan(src, j + 1)

RECURSIVE parse_simple_string_chars(_)
\* the unescaping loop of parse_simple_string over the content between the quotes
parse_simple_string_chars(content) ==
    IF content = << >> THEN << >>
    ELSE IF Head(content) = BSLASH
    THEN IF Len(content) = 1 THEN <<BSLASH>>
         ELSE LET c == content[2]
                  rest == parse_simple_string_chars(SubSeq(content, 3, Len(content)))
              IN  CASE c = "n" -> <<NL>> \o rest
                    [] c = "t" -> <<TAB>> \o rest
                    [] c = "r" -> <<CR>> \o rest
                    [] c = BSLASH -> <<BSLASH>> \o rest
                    [] c = QUOTE -> <<QUOTE>> \o rest
                    [] OTHER -> <<BSLASH, c>> \o rest
    ELSE <<Head(content)>> \o parse_simple_string_chars(Tail(content))

parse_simple_string(slice) == parse_simple_string_chars(SubSeq(slice, 2, Len(slice) - 1))

\* ------------------------------------------------------------------------
\* Numeric literals.  An i64 is held in limbs of eight decimal digits, least
\* significant first and without leading zero limbs (<<0>> is zero), so that
\* values near i64::MAX are exact: 9223372036854775807 is
\* <<54775807, 33720368, 922>>, 255 is <<255>>.
\* ------------------------------------------------------------------------
HexDigits == Digits \cup {"a", "b", "c", "d", "e", "f", "A", "B", "C", "D", "E", "F"}

\* char::to_digit
DigitVal(ch) ==
    CASE ch = "0" -> 0 [] ch = "1" -> 1 [] ch = "2" -> 2 [] ch = "3" -> 3 [] ch = "4" -> 4
      [] ch = "5" -> 5 [] ch = "6" -> 6 [] ch = "7" -> 7 [] ch = "8" -> 8 [] ch = "9" -> 9
      [] ch \in {"a", "A"} -> 10 [] ch \in {"b", "B"} -> 11 [] ch \in {"c", "C"} -> 12
      [] ch \in {"d", "D"} -> 13 [] ch \in {"e", "E"} -> 14 [] ch \in {"f", "F"} -> 15

\* one limb holds eight decimal digits
Limb == 100000000

\* i64::MAX = 9223372036854775807
I64Max == <<54775807, 33720368, 922>>

RECURSIVE MulAdd(_, _, _)
\* v * radix + carry
MulAdd(v, radix, carry) ==
    IF v = << >> THEN (IF carry = 0 THEN << >> ELSE <<carry>>)
    ELSE LET t == Head(v) * radix + carry IN <<t % Limb>> \o MulAdd(Tail(v), radix, t \div Limb)

\* the value fits an i64
FitsI64(v) ==
    \/ Len(v) < 3
    \/ /\ Len(v) = 3
       /\ \/ v[3] < I64Max[3]
          \/ v[3] = I64Max[3] /\ v[2] < I64Max[2]
          \/ v[3] = I64Max[3] /\ v[2] = I64Max[2] /\ v[1] <= I64Max[1]

\* str::replace('_', "")
StripUnderscores(text) == SelectSeq(text, LAMBDA c : c # "_")

RECURSIVE Accumulate(_, _, _, _)
\* the digit loop of from_str_radix: v is the value of the first k digits
Accumulate(text, radix, k, v) ==
    IF k = Len(text) \/ v = << >> THEN v
    ELSE Accumulate(text, radix, k + 1,
                    IF v = <<0>> THEN <<DigitVal(text[k + 1])>>
                    ELSE MulAdd(v, radix, DigitVal(text[k + 1])))

\* i64::from_str_radix(text, radix).ok() on a non-empty text of digits of
\* that radix: None (ok = FALSE) when the value overflows
from_str_radix(text, radix) ==
    LET v == Accumulate(text, radix, 0, <<0>>) IN
    IF FitsI64(v) THEN [ok |-> TRUE, value |-> v] ELSE [ok |-> FALSE, value |-> << >>]

parse_decimal(lexeme) == from_str_radix(StripUnderscores(lexeme), 10)

\* parse_hex reading the digits in base 10
parse_hex_base10(lexeme) == from_str_radix(StripUnderscores(SubSeq(lexeme, 3, Len(lexeme))), 10)

parse_hex(lexeme) == from_str_radix(StripUnderscores(SubSeq(lexeme, 3, Len(lexeme))), 16)

parse_binary(lexeme) == from_str_radix(StripUnderscores(SubSeq(lexeme, 3, Len(lexeme))), 2)

\* parse_float: the text handed to f64's parser (underscores and the suffix
\* removed); every lexeme of the two float rules parses
parse_float(lexeme) ==
    LET binding == StripUnderscores(lexeme)
        cleaned == IF binding[Len(binding)] \in {"f", "F"} THEN SubSeq(binding, 1, Len(binding) - 1)
                   ELSE binding
    IN  [ok |-> TRUE, value |-> cleaned]

RECURSIVE ClassEnd(_, _, _)
\* the end of the longest run of characters of class from index j
ClassEnd(src, j, class) ==
    IF j < Len(src) /\ src[j + 1] \in class THEN ClassEnd(src, j + 1, class) ELSE j

\* the end with an optional f or F suffix behind it
WithSuffix(src, e) == IF e < Len(src) /\ src[e + 1] \in {"f", "F"} THEN e + 1 ELSE e

\* the numeric rules that match at index i (a digit): <<rule, end>>
NumericRules(src, i) ==
    LET d == ClassEnd(src, i + 1, Digits \cup {"_"})
        s == IF d + 1 < Len(src) /\ src[d + 2] \in {"+", "-"} THEN d + 2 ELSE d + 1
    IN  {<<"decimal", d>>}
        \cup (IF HasPrefixAt(src, i, <<"0", "x">>) /\ i + 2 < Len(src) /\ src[i + 3] \in HexDigits
              THEN {<<"hex", ClassEnd(src, i + 3, HexDigits \cup {"_"})>>} ELSE {})
        \cup (IF HasPrefixAt(src, i, <<"0", "b">>) /\ i + 2 < Len(src) /\ src[i + 3] \in {"0", "1"}
              THEN {<<"binary", ClassEnd(src, i + 3, {"0", "1", "_"})>>} ELSE {})
        \cup (IF d < Len(src) /\ src[d + 1] = "."
              THEN {<<"float", WithSuffix(src, ClassEnd(src, d + 1, Digits \cup {"_"}))>>} ELSE {})
        \cup (IF d < Len(src) /\ src[d + 1] \in {"e", "E"} /\ s < Len(src) /\ src[s + 1] \in Digits
              THEN {<<"float", WithSuffix(src, ClassEnd(src, s + 1, Digits \cup {"_"}))>>} ELSE {})

\* the longest of them
LongestNumeric(src, i) ==
    CHOOSE r \in NumericRules(src, i) : \A q \in NumericRules(src, i) : q[2] <= r[2]

\* the callback of the numeric rule applied to the lexeme
NumericCallback(rule, lexeme) ==
    CASE rule = "decimal" -> parse_decimal(lexeme)
      [] rule = "hex" -> parse_hex(lexeme)
      [] rule = "binary" -> parse_binary(lexeme)
      [] rule = "float" -> parse_float(lexeme)

\* a match of the automaton: kind, character range [start, end) in src, callback value
LogosMatch(kind, start, end, value) == [kind |-> kind, start |-> start, end |-> end, value |-> value]

\* ------------------------------------------------------------------------
\* Reserved words
\* ------------------------------------------------------------------------
\* the #[token] rules of the reserved words: <<spelling, LogosToken variant>>
KeywordTokens ==
    { << <<"f", "n">>, "Fn" >>, << <<"l", "e", "t">>, "Let" >>, << <<"m", "u", "t">>, "Mut" >>,
      << <<"c", "o", "n", "s", "t">>, "Const" >>, << <<"i", "f">>, "If" >>,
      << <<"e", "l", "i", "f">>, "Elif" >>, << <<"e", "l", "s", "e">>, "Else" >>,
      << <<"m", "a", "t", "c", "h">>, "Match" >>, << <<"w", "h", "e", "r", "e">>, "Where" >>,
      << <<"f", "o", "r">>, "For" >>, << <<"i", "n">>, "In" >>,
      << <<"w", "h", "i", "l", "e">>, "While" >>, << <<"l", "o", "o", "p">>, "Loop" >>,
      << <<"b", "r", "e", "a", "k">>, "Break" >>,
      << <<"c", "o", "n", "t", "i", "n", "u", "e">>, "Continue" >>,
      << <<"r", "e", "t", "u", "r", "n">>, "Return" >>,
      << <<"s", "u", "m", "m", "o", "n">>, "Summon" >>, << <<"f", "r", "o", "m">>, "From" >>,
      << <<"a", "s">>, "As" >>, << <<"p", "a", "c", "k", "a", "g", "e">>, "Package" >>,
      << <<"a", "s", "y", "n", "c">>, "Async" >>, << <<"a", "w", "a", "i", "t">>, "Await" >>,
      << <<"t", "r", "y">>, "Try" >>, << <<"c", "a", "t", "c", "h">>, "Catch" >>,
      << <<"f", "a", "i", "l">>, "Fail" >>, << <<"s", "t", "r", "u", "c", "t">>, "Struct" >>,
      << <<"e", "n", "u", "m">>, "Enum" >>, << <<"t", "r", "a", "i", "t">>, "Trait" >>,
      << <<"i", "m", "p", "l">>, "Impl" >>, << <<"p", "u", "b">>, "Pub" >>,
      << <<"e", "d", "g", "e">>, "Edge" >>, << <<"u", "n", "s", "a", "f", "e">>, "Unsafe" >>,
      << <<"w", "i", "t", "h">>, "With" >>, << <<"d", "e", "f", "e", "r">>, "Defer" >>,
      << <<"a", "n", "d">>, "And" >>, << <<"o", "r">>, "Or" >>, << <<"n", "o", "t">>, "Not" >>,
      << <<"t", "r", "u", "e">>, "True" >>, << <<"f", "a", "l", "s", "e">>, "False" >>,
      << <<"n", "u", "l", "l">>, "Null" >>, << <<"s", "e", "l", "f">>, "SelfKw" >>,
      << <<"g", "e", "t">>, "Get" >>, << <<"s", "e", "t">>, "Set" >> }

\* the keyword arms of map_logos_token: <<LogosToken variant, TokenType variant>>
KeywordArms ==
    { <<"Fn", "Fn">>, <<"Let", "Let">>, <<"Mut", "Mut">>, <<"Const", "Const">>, <<"If", "If">>,
      <<"Elif", "Elif">>, <<"Else", "Else">>, <<"Match", "Match">>, <<"Where", "Where">>,
      <<"For", "For">>, <<"In", "In">>, <<"While", "While">>, <<"Loop", "Loop">>, <<"Break", "Break">>,
      <<"Continue", "Continue">>, <<"Return", "Return">>, <<"Summon", "Summon">>, <<"From", "From">>,
      <<"As", "As">>, <<"Package", "Package">>, <<"Async", "Async">>, <<"Await", "Await">>,
      <<"Try", "Try">>, <<"Catch", "Catch">>, <<"Fail", "Fail">>, <<"Struct", "Struct">>,
      <<"Enum", "Enum">>, <<"Trait", "Trait">>, <<"Impl", "Impl">>, <<"Pub", "Pub">>,
      <<"Edge", "Edge">>, <<"Unsafe", "Unsafe">>, <<"With", "With">>, <<"Defer", "Defer">>,
      <<"And", "And">>, <<"Or", "Or">>, <<"Not", "Not">>, <<"True", "True">>, <<"False", "False">>,
      <<"Null", "Null">>, <<"SelfKw", "SelfKw">>, <<"Get", "Get">>, <<"Set", "Set">> }

\* the keyword table of keywords.rs: <<spelling, TokenType variant>>
KEYWORDS ==
    { << <<"f", "n">>, "Fn" >>, << <<"l", "e", "t">>, "Let" >>, << <<"m", "u", "t">>, "Mut" >>,
      << <<"c", "o", "n", "s", "t">>, "Const" >>, << <<"i", "f">>, "If" >>,
      << <<"e", "l", "i", "f">>, "Elif" >>, << <<"e", "l", "s", "e">>, "Else" >>,
      << <<"m", "a", "t", "c", "h">>, "Match" >>, << <<"w", "h", "e", "r", "e">>, "Where" >>,
      << <<"f", "o", "r">>, "For" >>, << <<"i", "n">>, "In" >>,
      << <<"w", "h", "i", "l", "e">>, "While" >>, << <<"l", "o", "o", "p">>, "Loop" >>,
      << <<"b", "r", "e", "a", "k">>, "Break" >>,
      << <<"c", "o", "n", "t", "i", "n", "u", "e">>, "Continue" >>,
      << <<"r", "e", "t", "u", "r", "n">>, "Return" >>,
      << <<"s", "u", "m", "m", "o", "n">>, "Summon" >>, << <<"f", "r", "o", "m">>, "From" >>,
      << <<"a", "s">>, "As" >>, << <<"p", "a", "c", "k", "a", "g", "e">>, "Package" >>,
      << <<"a", "s", "y", "n", "c">>, "Async" >>, << <<"a", "w", "a", "i", "t">>, "Await" >>,
      << <<"t", "r", "y">>, "Try" >>, << <<"c", "a", "t", "c", "h">>, "Catch" >>,
      << <<"f", "a", "i", "l">>, "Fail" >>, << <<"s", "t", "r", "u", "c", "t">>, "Struct" >>,
      << <<"e", "n", "u", "m">>, "Enum" >>, << <<"t", "r", "a", "i", "t">>, "Trait" >>,
      << <<"i", "m", "p", "l">>, "Impl" >>, << <<"p", "u", "b">>, "Pub" >>,
      << <<"e", "d", "g", "e">>, "Edge" >>, << <<"u", "n", "s", "a", "f", "e">>, "Unsafe" >>,
      << <<"w", "i", "t", "h">>, "With" >>, << <<"d", "e", "f", "e", "r">>, "Defer" >>,
      << <<"a", "n", "d">>, "And" >>, << <<"o", "r">>, "Or" >>, << <<"n", "o", "t">>, "Not" >>,
      << <<"t", "r", "u", "e">>, "True" >>, << <<"f", "a", "l", "s", "e">>, "False" >>,
      << <<"n", "u", "l", "l">>, "Null" >>, << <<"s", "e", "l", "f">>, "SelfKw" >>,
      << <<"g", "e", "t">>, "Get" >>, << <<"s", "e", "t">>, "Set" >> }

\* KEYWORDS.get(word).cloned(): Some(kind) or None
get_keyword(word) ==
    IF \E e \in KEYWORDS : e[1] = word
    THEN [some |-> TRUE, kind |-> (CHOOSE e \in KEYWORDS : e[1] = word)[2]]
    ELSE [some |-> FALSE, kind |-> ""]

\* a reserved word wins as soon as it is a prefix of the word, whatever follows
WordMatchFirstRule(src, i) ==
    IF \E t \in KeywordTokens : HasPrefixAt(src, i, t[1])
    THEN LET t == CHOOSE t \in KeywordTokens :
                      /\ HasPrefixAt(src, i, t[1])
                      /\ \A u \in KeywordTokens : HasPrefixAt(src, i, u[1]) => Len(u[1]) <= Len(t[1])
         IN  LogosMatch(t[2], i, i + Len(t[1]), << >>)
    ELSE LogosMatch("Ident", i, IdentEnd(src, i + 1), << >>)

\* the match of a word at index i: the Ident rule takes the longest run; a
\* reserved word's rule matches its spelling and wins over Ident at equal length
WordMatch(src, i) ==
    LET e == IdentEnd(src, i + 1)
        lexeme == SubSeq(src, i + 1, e)
    IN  IF \E t \in KeywordTokens : t[1] = lexeme
        THEN LogosMatch((CHOOSE t \in KeywordTokens : t[1] = lexeme)[2], i, e, << >>)
        ELSE LogosMatch("Ident", i, e, << >>)

\* The failing lexeme of a classification failure starts at the match start and
\* advances: it is the first character, or what the automaton had consumed of
\* a rule without accepting prefix ($, $@, an unclosed plain string).
ErrorMatches(src, i) ==
    LET ch == src[i + 1]
        ends == {i + 1}
                  \cup (IF ch = "$" /\ HasPrefixAt(src, i, <<"$", "@">>) THEN {i + 2} ELSE {})
                  \cup (IF ch = QUOTE THEN {StringLitScan(src, i + 1).end} ELSE {})
    IN  {LogosMatch("Error", i, e, << >>) : e \in ends}

\* the match of a numeric literal at index i: IntLit or FloatLit with the
\* callback's value, or a failure over the whole lexeme when the callback
\* returns None
NumericMatch(src, i) ==
    LET r == LongestNumeric(src, i)
        v == NumericCallback(r[1], SubSeq(src, i + 1, r[2]))
    IN  IF v.ok THEN LogosMatch(IF r[1] = "float" THEN "FloatLit" ELSE "IntLit", i, r[2], v.value)
        ELSE LogosMatch("Error", i, r[2], << >>)

\* the matches logos_lex.next() can return at character index from of src
\* (empty at the end of the source): the longest rule matching behind the blanks
LogosNext(src, from) ==
    LET i == SkipBlanks(src, from) IN
    IF i >= Len(src) THEN {}
    ELSE LET ch == src[i + 1] IN
         CASE ch = "/" /\ HasPrefixAt(src, i, <<"/", "/">>) ->
                {LogosMatch("LineComment", i, LineCommentEnd(src, i + 2), << >>)}
           [] ch = "/" /\ HasPrefixAt(src, i, <<"/", "*", "*">>) ->
                {LogosMatch("DocCommentStar", i, i + 3, << >>)}
           [] ch = "/" /\ HasPrefixAt(src, i, <<"/", "*", "!">>) ->
                {LogosMatch("DocCommentBang", i, i + 3, << >>)}
           [] ch = "/" /\ HasPrefixAt(src, i, <<"/", "*">>) /\ ~HasPrefixAt(src, i, <<"/", "*", "*">>)
                       /\ ~HasPrefixAt(src, i, <<"/", "*", "!">>) ->
                {LogosMatch("BlockCommentStart", i, i + 2, << >>)}
           [] ch = "$" /\ HasPrefixAt(src, i, <<"$", "@", QUOTE>>) ->
                {LogosMatch("InterpolatedVerbatimStart", i, i + 3, << >>)}
           [] ch = "$" /\ HasPrefixAt(src, i, <<"$", QUOTE>>) ->
                {LogosMatch("InterpolatedStringStart", i, i + 2, << >>)}
           [] ch = "@" /\ HasPrefixAt(src, i, <<"@", QUOTE>>) ->
                {LogosMatch("VerbatimStringStart", i, i + 2, << >>)}
           [] ch = QUOTE /\ StringLitScan(src, i + 1).ok ->
                LET e == StringLitScan(src, i + 1).end IN
                {LogosMatch("StringLit", i, e, parse_simple_string(SubSeq(src, i + 1, e)))}
           [] ch = NL ->
                {LogosMatch("Newline", i, i + 1, << >>)}
           [] IsIdentStart(ch) ->
                {WordMatch(src, i)}
           [] ch \in Digits ->
                {NumericMatch(src, i)}
           [] OTHER ->
                IF FixedMatches(src, i) # {}
                THEN LET t == LongestFixed(src, i) IN {LogosMatch(t[2], i, i + Len(t[1]), << >>)}
                ELSE ErrorMatches(src, i)

\* ------------------------------------------------------------------------
\* Inputs of tokenize
\* ------------------------------------------------------------------------
\* the pieces inputs are built from: the markers of the delegated constructs
\* and single characters of every class the scanners distinguish
Atoms ==
    { <<"/", "*">>, <<"*", "/">>, <<"/", "/">>, <<"*">>, <<"!">>,
      <<"@", QUOTE>>, <<"$", QUOTE>>, <<"$", "@", QUOTE>>, <<QUOTE>>,
      <<"{">>, <<"}">>, <<BSLASH>>, <<"a">>, <<" ">>, <<NL>>, <<MB>>, <<BT>> }

RECURSIVE AtomInputs(_)
\* the concatenations of at most k atoms
AtomInputs(k) ==
    IF k = 0 THEN {<< >>}
    ELSE LET S == AtomInputs(k - 1) IN S \cup {s \o a : s \in S, a \in Atoms}

\* spec 8: a nested block comment
NestedComment == <<"/", "*", " ", "a", " ", "/", "*", " ", "b", " ", "*", "/", " ", "c", " ", "*", "/">>

\* two block comments in a row
TwoComments == <<"/", "*", "a", "*", "/", "/", "*", "a", "*", "/">>

\* a word behind a block comment
CommentThenWord == <<"/", "*", "a", "*", "/", " ", "a">>

\* a word behind a nested block comment
NestedThenWord == <<"/", "*", "/", "*", "a", "*", "/", "*", "/", "a">>

\* a block comment holding a two-byte character
MultiByteComment == <<"/", "*", MB, "*", "/">>

\* a verbatim string holding two-byte characters
MultiByteVerbatim == <<"@", QUOTE, MB, MB, QUOTE>>

\* a doc comment holding an opening marker
DocWithOpener == <<"/", "*", "*", " ", "a", " ", "/", "*", " ", "b", " ", "*", "/">>

\* the second doc sigil
DocBang == <<"/", "*", "!", " ", "a", " ", "*", "/", "a">>

\* a doc comment behind a verbatim string
DocAfterString == <<"@", QUOTE, QUOTE, "/", "*", "*", "a", "*", "/">>

\* an unterminated block comment behind a verbatim string
OpenCommentAfterString == <<"@", QUOTE, QUOTE, "/", "*", "a">>

\* an unterminated nested block comment behind a two-byte character
OpenNestedAfterMultiByte == <<MB, "/", "*", "/", "*">>

\* two stray characters behind two verbatim strings
StrayAfterStrings == <<"@", QUOTE, QUOTE, " ", "@", QUOTE, QUOTE, BT, BT, QUOTE>>

\* the cap of the ErrorManager (max_errors)
MaxErrors == 100

\* the longest run of stray characters tried against the cap
MaxRun == 102

\* n stray characters
StrayRun(n) == [i \in 1..n |-> BT]

\* spec 5: the simple interpolation
HelloName == <<"$", QUOTE, "H", "e", "l", "l", "o", ",", " ", "{", "n", "a", "m", "e", "}", "!", QUOTE>>

\* an interpolated string behind a verbatim string
InterpolatedAfterString == <<"@", QUOTE, QUOTE, "$", QUOTE, "a", "{", "b", "}", QUOTE>>

\* a nested brace inside an expression
NestedBraces == <<"$", QUOTE, "A", "r", "r", "a", "y", ":", " ", "{", "a", "r", "r", "[", "{", "i", "d", "x", "}", "]", "}", QUOTE>>

\* a quote and blanks inside an expression
QuoteInExpr == <<"$", QUOTE, "{", " ", "a", QUOTE, "b", " ", "}", QUOTE>>

\* a nested brace inside an expression of an interpolated verbatim string
VerbatimNestedBraces == <<"$", "@", QUOTE, "{", " ", "{", "a", "}", " ", "}", QUOTE>>

\* spec 5: escapes in the text around an expression
EscapesAroundExpr == <<"$", QUOTE, "L", "i", "n", "e", " ", "1", BSLASH, "n", "{", "c", "o", "n", "t", "e", "n", "t", "}", BSLASH, "n", "L", "i", "n", "e", " ", "3", QUOTE>>

\* an escaped quote and escaped braces
EscapedQuoteBraces == <<"$", QUOTE, BSLASH, QUOTE, BSLASH, "{", "a", BSLASH, "}", QUOTE>>

\* an escape inside an expression
EscapeInExpr == <<"$", QUOTE, "{", "a", BSLASH, "n", "}", QUOTE>>

\* an escape that is not accepted
UnknownEscape == <<"$", QUOTE, "a", BSLASH, "x", "b", QUOTE>>

\* an escape in an interpolated string behind a verbatim string
EscapeAfterString == <<"@", QUOTE, QUOTE, "$", QUOTE, BSLASH, "n", QUOTE>>

\* spec 5: doubled quotes in a verbatim string
SheSaid == <<"@", QUOTE, "S", "h", "e", " ", "s", "a", "i", "d", " ", QUOTE, QUOTE, "H", "e", "l", "l", "o", QUOTE, QUOTE, "!", QUOTE>>

\* a backslash in a verbatim string
VerbatimBackslash == <<"@", QUOTE, "C", ":", BSLASH, "U", QUOTE>>

\* the three delegated string forms without their closing quote
OpenInterpolated == <<"$", QUOTE, "a", "{", "b", "}", " ", MB>>

OpenVerbatim == <<"@", QUOTE, "a", QUOTE, QUOTE, MB, NL>>

OpenInterpolatedVerbatim == <<"$", "@", QUOTE, "{", "b", "}", QUOTE, QUOTE, "a">>

\* a verbatim string without its closing quote behind a verbatim string
OpenVerbatimAfterString == <<"@", QUOTE, "a", QUOTE, "@", QUOTE, "b">>

\* error_recovery_test: a plain string without its closing quote
OpenPlain == <<QUOTE, "u", "n", "t", "e", "r", "m", "i", "n", "a", "t", "e", "d", " ", "s", "t", "r", "i", "n", "g">>

\* string_interpolation_test: an expression without its closing brace
UnclosedExpr == <<"$", QUOTE, "H", "e", "l", "l", "o", ",", " ", "{", "n", "a", "m", "e", QUOTE>>

\* the same behind a verbatim string
UnclosedExprAfterString == <<"@", QUOTE, QUOTE, "$", QUOTE, "{", "a">>

\* the same in an interpolated verbatim string, with a two-byte character
UnclosedExprVerbatim == <<"$", "@", QUOTE, "{", MB>>

\* error_recovery_test: a plain string with an unknown escape
PlainUnknownEscape == <<QUOTE, "H", "e", "l", "l", "o", BSLASH, "x", "W", "o", "r", "l", "d", QUOTE>>

\* string_interpolation_test: backslashes around an expression in an
\* interpolated verbatim string
UsersDocuments == <<"$", "@", QUOTE, "C", ":", BSLASH, "U", "s", "e", "r", "s", BSLASH, "{", "u", "s", "e", "r", "n", "a", "m", "e", "}", BSLASH, "D", "o", "c", "u", "m", "e", "n", "t", "s", QUOTE>>

\* doubled quotes, a backslash and a line break in an interpolated verbatim string
DoubledQuoteInterpolated == <<"$", "@", QUOTE, "a", QUOTE, QUOTE, "{", "b", "}", QUOTE, QUOTE, BSLASH, "n", NL, QUOTE, "c">>

\* an interpolated verbatim string behind a verbatim string
InterpolatedVerbatimAfterString == <<"@", QUOTE, QUOTE, "$", "@", QUOTE, "a", "{", "b", "}", QUOTE>>

\* empty and adjacent expressions, in an interpolated and in an
\* interpolated verbatim string
AdjacentExprs == <<"$", QUOTE, "{", "}", "{", "a", "}", "b", "{", "c", "}", QUOTE, "$", "@", QUOTE, "{", "}", "{", "a", "}", QUOTE, QUOTE, QUOTE>>

\* the inputs about string literals
StringScenarios ==
    { PlainUnknownEscape, UnclosedExpr, UnclosedExprAfterString, UnclosedExprVerbatim, OpenPlain, SheSaid, VerbatimBackslash, OpenInterpolated, OpenVerbatim, OpenInterpolatedVerbatim,
      OpenVerbatimAfterString } \cup
    { UsersDocuments, DoubledQuoteInterpolated, InterpolatedVerbatimAfterString, AdjacentExprs } \cup
    { HelloName, InterpolatedAfterString, NestedBraces, QuoteInExpr, VerbatimNestedBraces,
      EscapesAroundExpr, EscapedQuoteBraces, EscapeInExpr, UnknownEscape, EscapeAfterString }

\* spec 5: a hex literal
HexFF == <<"0", "x", "F", "F">>

\* spec 5: a binary literal
Bin1010 == <<"0", "b", "1", "0", "1", "0">>

\* spec 5: a decimal literal with underscores
Million == <<"1", "_", "0", "0", "0", "_", "0", "0", "0">>

\* i64::MAX in decimal
DecMax == <<"9", "2", "2", "3", "3", "7", "2", "0", "3", "6", "8", "5", "4", "7", "7", "5", "8", "0", "7">>

\* i64::MAX + 1 in decimal
DecOverflow == <<"9", "2", "2", "3", "3", "7", "2", "0", "3", "6", "8", "5", "4", "7", "7", "5", "8", "0", "8">>

\* i64::MAX in hex
HexMax == <<"0", "x", "7", "F", "F", "F", "_", "F", "F", "F", "F", "_", "F", "F", "F", "F", "_", "F", "F", "F", "F">>

\* i64::MAX + 1 in hex
HexOverflow == <<"0", "x", "8", "0", "0", "0", "0", "0", "0", "0", "0", "0", "0", "0", "0", "0", "0", "0">>

\* i64::MAX in binary
BinMax == <<"0", "b", "1", "1", "1", "1", "1", "1", "1", "1", "1", "1", "1", "1", "1", "1", "1", "1", "1", "1", "1", "1", "1", "1", "1", "1", "1", "1", "1", "1", "1", "1", "1", "1", "1", "1", "1", "1", "1", "1", "1", "1", "1", "1", "1", "1", "1", "1", "1", "1", "1", "1", "1", "1", "1", "1", "1", "1", "1", "1", "1", "1", "1", "1", "1">>

\* i64::MAX + 1 in binary
BinOverflow == <<"0", "b", "1", "0", "0", "0", "0", "0", "0", "0", "0", "0", "0", "0", "0", "0", "0", "0", "0", "0", "0", "0", "0", "0", "0", "0", "0", "0", "0", "0", "0", "0", "0", "0", "0", "0", "0", "0", "0", "0", "0", "0", "0", "0", "0", "0", "0", "0", "0", "0", "0", "0", "0", "0", "0", "0", "0", "0", "0", "0", "0", "0", "0", "0", "0", "0">>

\* an overflowing literal between two literals
OverflowBetween == <<"4", "2", " ", "9", "9", "9", "9", "9", "9", "9", "9", "9", "9", "9", "9", "9", "9", "9", "9", "9", "9", "9", "9", " ", "0", "x", "1", "f">>

\* a literal with underscores behind a verbatim string
NumberAfterString == <<"@", QUOTE, QUOTE, " ", "1", "_", "0">>

\* basic_tokens_test: doubles and floats
FloatLiterals == <<"3", ".", "1", "4", " ", "3", ".", "1", "4", "f", " ", "1", "e", "1", "0", " ", "1", "e", "1", "0", "F", " ", "1", "E", "-", "3", " ", "1", "f", " ", "1", "e", "+">>

\* a point without digits behind it
EmptyFraction == <<"1", ".", " ", "2", ".", "f", "o", "o">>

NumberScenarios ==
    { FloatLiterals, EmptyFraction, NumberAfterString, HexFF, Bin1010, Million, DecMax, DecOverflow, HexMax, HexOverflow, BinMax, BinOverflow, OverflowBetween }

\* the pieces numeric inputs are built from
NumberAtoms ==
    { <<"0", "x">>, <<"0", "b">>, <<"0">>, <<"1">>, <<"9">>, <<"f">>, <<"_">>, <<".">>, <<"e">> }

RECURSIVE NumberInputs(_)
\* the concatenations of at most k numeric atoms
NumberInputs(k) ==
    IF k = 0 THEN {<< >>}
    ELSE LET S == NumberInputs(k - 1) IN S \cup {s \o a : s \in S, a \in NumberAtoms}

\* the pieces operator inputs are built from
OperatorAtoms ==
    { <<"<">>, <<">">>, <<"=">>, <<"?">>, <<".">>, <<":">>, <<"&">>, <<" ">> }

RECURSIVE OperatorInputs(_)
\* the concatenations of at most k operator atoms
OperatorInputs(k) ==
    IF k = 0 THEN {<< >>}
    ELSE LET S == OperatorInputs(k - 1) IN S \cup {s \o a : s \in S, a \in OperatorAtoms}

\* a three-character operator behind a verbatim string
ShiftAfterString == <<"@", QUOTE, QUOTE, "<", "<", "=", "<">>

\* every operator and delimiter of the language
AllOperators == <<"<", "<", "=", ">", ">", "=", " ", "<", "<", " ", ">", ">", " ", "=", "=", " ", "!", "=", " ", "<", "=", " ", ">", "=", " ", "&", "&", " ", "|", "|", " ", "?", ".", " ", "=", ">", " ", ":", "=", " ", "+", "=", " ", "-", "=", " ", "*", "=", " ", "/", "=", " ", "%", "=", " ", "&", "=", " ", "|", "=", " ", "^", "=", " ", "+", "-", "*", "/", " ", "%", "&", "|", "^", "~", "<", " ", ">", " ", "!", " ", "?", " ", "=", " ", "(", ")", "{", "}", "[", "]", ",", ".", ":", " ", ";", "@">>

OperatorScenarios == { ShiftAfterString, AllOperators }

\* the pieces words are built from
WordAtoms ==
    { <<"i">>, <<"f">>, <<"n">>, <<"o", "r">>, <<"a", "s">>, <<"_">>, <<"1">>, <<" ">> }

RECURSIVE WordInputs(_)
\* the concatenations of at most k word atoms
WordInputs(k) ==
    IF k = 0 THEN {<< >>}
    ELSE LET S == WordInputs(k - 1) IN S \cup {s \o a : s \in S, a \in WordAtoms}

\* every reserved word alone, with a character before or behind it, behind a
\* verbatim string, and with a capital letter
KeywordInputs ==
    UNION { { e[1], e[1] \o <<"x">>, e[1] \o <<"_">>, e[1] \o <<"1">>, <<"x">> \o e[1], <<"_">> \o e[1],
              <<"@", QUOTE, QUOTE>> \o e[1] \o <<" ">> \o e[1] } : e \in KEYWORDS }
        \cup { <<"I", "f">>, <<"I", "F">>, <<"i", "F">>, <<"S", "e", "l", "f">> }

\* a reserved word and a word it is a prefix of
ForFormat == <<"f", "o", "r", " ", "f", "o", "r", "m", "a", "t">>

\* delegated constructs behind ordinary tokens, none behind another
SentinelsAfterTokens ==
    { <<"a", " ", "@", QUOTE, "b", QUOTE, " ", "a">>,
      <<"a", NL, " ", "$", QUOTE, "{", "b", "}", QUOTE>>,
      <<MB, "/", "*", "*", "a", "*", "/">>,
      <<"a", "=", "/", "*", "a", NL, "*", "/", "a">>,
      <<"1", " ", "$", "@", QUOTE, "a">>,
      <<"a", "/", "*", "a">> }

\* error_recovery_test: a dollar sign that starts no string
StrayDollar == <<"l", "e", "t", " ", "x", " ", "=", " ", "4", "2", " ", "$", " ", "l", "e", "t", " ", "y", " ", "=", " ", "1", "0", "0">>

\* stray characters behind blanks, a line break and a two-byte character
StrayAfterBlanks == <<"a", " ", BT, NL, " ", MB, BT, "$", "@", "a">>

\* a line comment, a block comment and line breaks before a word
CommentsAndBreaks == <<"/", "/", "c", NL, "/", "*", "a", "*", "/", NL, "a">>

\* two verbatim strings in a row
TwoStrings == <<"@", QUOTE, "a", QUOTE, "@", QUOTE, "b", "c", QUOTE>>

Scenarios ==
    StringScenarios \cup NumberScenarios \cup OperatorScenarios \cup KeywordInputs \cup {ForFormat}
        \cup SentinelsAfterTokens \cup {TwoStrings, StrayDollar, StrayAfterBlanks, CommentsAndBreaks} \cup
    { NestedComment, TwoComments, CommentThenWord, NestedThenWord, MultiByteComment, MultiByteVerbatim, DocWithOpener, DocBang, DocAfterString, OpenCommentAfterString, OpenNestedAfterMultiByte, StrayAfterStrings }
        \cup {StrayRun(n) : n \in MaxErrors..MaxRun}

\* the concatenations of at most k atoms of each family
FamilyInputs(k) == AtomInputs(k) \cup NumberInputs(k) \cup OperatorInputs(k) \cup WordInputs(k)

Inputs == FamilyInputs(MaxAtoms) \cup Scenarios

\* ------------------------------------------------------------------------
\* ErrorManager
\* ------------------------------------------------------------------------
\* ErrorManager::new
NewErrorManager(source) == [lexical_errors |-> << >>, source |-> source, max_errors |-> MaxErrors]

\* add_lexical_error comparing with <= : one fault too many is stored
add_lexical_error_off_by_one(em, err) ==
    IF Len(em.lexical_errors) <= em.max_errors
    THEN [em EXCEPT !.lexical_errors = Append(@, err)]
    ELSE em

add_lexical_error(em, err) ==
    IF Len(em.lexical_errors) < em.max_errors
    THEN [em EXCEPT !.lexical_errors = Append(@, err)]
    ELSE em

\* has_errors overlooking a single fault
has_errors_above_one(em) == Len(em.lexical_errors) > 1

has_errors(em) == em.lexical_errors # << >>

error_count(em) == Len(em.lexical_errors)

\* take_errors, had it handed out a copy of the faults
take_errors_copy(em) == [errors |-> em.lexical_errors, manager |-> em]

\* ErrorManager::take_errors: the faults it returns and the manager it leaves
take_errors(em) == [errors |-> em.lexical_errors, manager |-> [em EXCEPT !.lexical_errors = << >>]]

\* ------------------------------------------------------------------------
\* Logger and the output of the ErrorManager.  What is written to the
\* standard error stream is a sequence of lines, a line a sequence of pieces
\* of text.
\* ------------------------------------------------------------------------
\* the colour codes: ESC [ 36 m and so on
CYAN == "<ESC>[36m"
GREEN == "<ESC>[32m"
YELLOW == "<ESC>[33m"
RED == "<ESC>[31m"
RESET == "<ESC>[0m"

LogLevels == {"Debug", "Info", "Warning", "Error"}

\* the prefix and the colour of a level
LevelPrefix(level) ==
    CASE level = "Debug" -> <<"DEBUG", CYAN>>
      [] level = "Info" -> <<"INFO", GREEN>>
      [] level = "Warning" -> <<"WARN", YELLOW>>
      [] level = "Error" -> <<"ERROR", RED>>

\* Logger::log: the lines it writes, none while the logger is disabled
log(enabled, level, text) ==
    IF ~enabled THEN << >>
    ELSE << <<LevelPrefix(level)[2], "[", LevelPrefix(level)[1], "]", RESET, " ">> \o text >>

RECURSIVE Lines(_)
\* str::lines: the text between line breaks, without a line behind a final
\* break; a carriage return before a break belongs to the break
Lines(text) ==
    IF text = << >> THEN << >>
    ELSE IF \E k \in 1..Len(text) : text[k] = NL
    THEN LET k == CHOOSE k \in 1..Len(text) : text[k] = NL /\ \A j \in 1..(k - 1) : text[j] # NL
             first == SubSeq(text, 1, k - 1)
         IN  <<IF first # << >> /\ first[Len(first)] = CR THEN SubSeq(first, 1, Len(first) - 1)
               ELSE first>>
                 \o Lines(SubSeq(text, k + 1, Len(text)))
    ELSE <<text>>

\* " ".repeat(n)
Spaces(n) == [i \in 1..n |-> " "]

\* format!("{:3}", n): n right-aligned in three columns
Pad3(n) == IF n < 10 THEN <<" ", " ", ToString(n)>> ELSE IF n < 100 THEN <<" ", ToString(n)>> ELSE <<ToString(n)>>

\* the line of source a span points to, empty when there is none
line_text(span, source) ==
    IF span.line > 0 /\ span.line <= Len(Lines(source)) THEN Lines(source)[span.line] ELSE << >>

\* Logger::formatted_error: the lines it writes
formatted_error(enabled, error, span, source) ==
    IF ~enabled THEN << >>
    ELSE << <<RED, "[ERROR]", RESET, " ">> \o message(error),
            <<"  ", CYAN, "--> ", ToString(span.line), ":", ToString(span.column), RESET>>,
            <<"   |">>,
            Pad3(span.line) \o <<" | ">> \o line_text(span, source),
            <<"   | ">> \o Spaces(Max(span.column - 1, 0)) \o <<RED, "^", RESET>> >>

\* format_lexical_error, had it written the help line for every fault
format_lexical_error_always_help(error, source) ==
    << <<RED, "error:", RESET, " ">> \o message(error),
       <<"  ", CYAN, "--> ", ToString(error.span.line), ":", ToString(error.span.column), RESET>>,
       <<"   |">>,
       Pad3(error.span.line) \o <<" | ">> \o line_text(error.span, source),
       <<"   | ">> \o Spaces(Max(error.span.column - 1, 0)) \o <<RED, "^", RESET>>,
       <<"   ", YELLOW, "= help:", RESET, " ">> \o suggestion(error) >>

\* DiagnosticFormatter::format_lexical_error: the lines of the text it returns
format_lexical_error(error, source) ==
    << <<RED, "error:", RESET, " ">> \o message(error),
       <<"  ", CYAN, "--> ", ToString(error.span.line), ":", ToString(error.span.column), RESET>>,
       <<"   |">>,
       Pad3(error.span.line) \o <<" | ">> \o line_text(error.span, source),
       <<"   | ">> \o Spaces(Max(error.span.column - 1, 0)) \o <<RED, "^", RESET>> >>
        \o (IF suggestion(error) # << >>
            THEN << <<"   ", YELLOW, "= help:", RESET, " ">> \o suggestion(error) >>
            ELSE << >>)

RECURSIVE report_entries_blank_after_each(_, _, _)
\* the loop of report_all, had it written the separator behind every entry
report_entries_blank_after_each(enabled, em, idx) ==
    IF idx > Len(em.lexical_errors) THEN << >>
    ELSE LET error == em.lexical_errors[idx] IN
         formatted_error(enabled, error, error.span, em.source)
             \o (IF suggestion(error) # << >>
                 THEN << <<"   ", YELLOW, "Suggestion:", RESET, " ">> \o suggestion(error) >>
                 ELSE << >>)
             \o << << >> >>
             \o report_entries_blank_after_each(enabled, em, idx + 1)

RECURSIVE report_entries(_, _, _)
\* the loop of report_all from the fault with 1-based index idx on
report_entries(enabled, em, idx) ==
    IF idx > Len(em.lexical_errors) THEN << >>
    ELSE LET error == em.lexical_errors[idx] IN
         formatted_error(enabled, error, error.span, em.source)
             \o (IF suggestion(error) # << >>
                 THEN << <<"   ", YELLOW, "Suggestion:", RESET, " ">> \o suggestion(error) >>
                 ELSE << >>)
             \o (IF idx < Len(em.lexical_errors) THEN << << >> >> ELSE << >>)
             \o report_entries(enabled, em, idx + 1)

\* ErrorManager::report_all: the lines it writes
report_all(enabled, em) ==
    IF em.lexical_errors = << >> THEN << >>
    ELSE log(enabled, "Error", <<NL, ToString(Len(em.lexical_errors)), " lexical error(s) found:">>)
             \o report_entries(enabled, em, 1)

\* ------------------------------------------------------------------------
\* LogosLexer: the driver
\* ------------------------------------------------------------------------
VARIABLES
    input,          \* the source text
    logos_lex,      \* the automaton: base is the byte offset of input where its
                    \* source slice starts, token_end its cursor inside that slice
    error_manager,
    position, line, column,
    tokens,
    pc,             \* "scanning", "done" (tokenize returned) or "panic"
    result,         \* what tokenize returned
    self_span,      \* the receiver of Span::merge
    other_span,     \* its argument
    merged,         \* what it returned, << >> before the call
    LOGGER_ENABLED, \* the flag of the Logger
    stderr,         \* the lines written to the standard error stream
    taken,          \* what take_errors returned, << >> before the call
    output,         \* the last call of format_lexical_error: its arguments and the
                    \* text it returned; << >> before the call
    lexers          \* the LogosLexer instances that run side by side

driver_vars == <<input, logos_lex, error_manager, position, line, column, tokens, pc, result>>

span_vars == <<self_span, other_span, merged>>

logger_vars == <<LOGGER_ENABLED, stderr>>

call_vars == <<taken, output>>

instance_vars == <<lexers>>

vars == <<driver_vars, span_vars, logger_vars, call_vars, instance_vars>>

NoResult == [tag |-> "None", tokens |-> << >>, error_manager |-> NewErrorManager(<< >>)]

\* LogosToken::lexer(&input[pos..])
NewLogosLexer(pos) == [base |-> pos, token_end |-> 0]

\* the slice the automaton runs on
LogosSource == StrSlice(input, logos_lex.base, ByteLen(input))

\* the matches logos_lex.next() can return in this state
NextMatches == LogosNext(LogosSource, CharIndex(LogosSource, logos_lex.token_end))

\* logos_lex.span(): byte offsets inside the automaton's own slice
span_range(m) == [start |-> ByteOffset(LogosSource, m.start), end |-> ByteOffset(LogosSource, m.end)]

\* logos_lex.slice()
slice(m) == SubSeq(LogosSource, m.start + 1, m.end)

\* the automaton after next() returned m
Advanced(m) == [logos_lex EXCEPT !.token_end = span_range(m).end]

RECURSIVE update_position(_, _)
\* the cursor [position, line, column] moved over lexeme
update_position(cur, lexeme) ==
    IF lexeme = << >> \/ cur.position < 0 THEN cur
    ELSE LET ch == Head(lexeme) IN
         update_position([position |-> cur.position + Utf8Len(ch),
                          line |-> IF ch = NL THEN cur.line + 1 ELSE cur.line,
                          column |-> IF ch = NL THEN 1 ELSE cur.column + 1],
                         Tail(lexeme))

Sentinels == {"InterpolatedStringStart", "VerbatimStringStart", "InterpolatedVerbatimStart",
              "BlockCommentStart", "DocCommentStar", "DocCommentBang"}

\* the scanner a sentinel is handed to, started at start_pos of inp
Delegate(kind, inp, start_pos, ln, col) ==
    CASE kind = "InterpolatedStringStart" -> parse_interpolated_string(inp, start_pos, ln, col)
      [] kind = "VerbatimStringStart" -> parse_verbatim_string(inp, start_pos, ln, col)
      [] kind = "InterpolatedVerbatimStart" -> parse_interpolated_verbatim_string(inp, start_pos, ln, col)
      [] kind = "BlockCommentStart" -> parse_block_comment(inp, start_pos, ln, col)
      [] kind = "DocCommentStar" -> parse_doc_comment(inp, start_pos, ln, col, <<"/", "*", "*">>)
      [] kind = "DocCommentBang" -> parse_doc_comment(inp, start_pos, ln, col, <<"/", "*", "!">>)

\* the start offset the driver hands to the scanner of a sentinel
DelegateStart(m) == span_range(m).start

\* the payload map_logos_token gives the token of an ordinary match
map_logos_token(m, lexeme) ==
    IF m.kind = "Ident" /\ ~get_keyword(lexeme).some THEN lexeme ELSE m.value

\* the TokenType variant map_logos_token gives it: a FloatLit of the
\* automaton is a FloatLit when the lexeme ends with f or F, else a DoubleLit;
\* an Ident is looked up in the keyword table
token_kind(m, lexeme) ==
    CASE m.kind = "FloatLit" -> IF lexeme[Len(lexeme)] \in {"f", "F"} THEN "FloatLit" ELSE "DoubleLit"
      [] m.kind = "Ident" -> IF get_keyword(lexeme).some THEN get_keyword(lexeme).kind ELSE "Ident"
      [] \E a \in KeywordArms : a[1] = m.kind -> (CHOOSE a \in KeywordArms : a[1] = m.kind)[2]
      [] OTHER -> m.kind

\* the sentinel arms of handle_logos_token
HandOff(m) ==
    LET r == Delegate(m.kind, input, DelegateStart(m), line, column) IN
    CASE r.tag = "Ok" ->
            /\ tokens' = IF m.kind = "BlockCommentStart" THEN tokens ELSE Append(tokens, r.token)
            /\ position' = r.pos
            /\ line' = r.line
            /\ column' = r.column
            /\ IF SliceOk(input, r.pos, ByteLen(input))
               THEN logos_lex' = NewLogosLexer(r.pos) /\ pc' = pc
               ELSE logos_lex' = Advanced(m) /\ pc' = "panic"
            /\ UNCHANGED error_manager
      [] r.tag = "Err" ->
            /\ error_manager' = add_lexical_error(error_manager, r.err)
            /\ logos_lex' = Advanced(m)
            /\ UNCHANGED <<position, line, column, tokens, pc>>
      [] r.tag = "Panic" ->
            /\ pc' = "panic"
            /\ logos_lex' = Advanced(m)
            /\ UNCHANGED <<position, line, column, tokens, error_manager>>

\* the LineComment | Newline arm, had it pushed a token for the match
SkipMatchPushes(m) ==
    LET cur == update_position([position |-> position, line |-> line, column |-> column], slice(m)) IN
    /\ tokens' = Append(tokens, Token(m.kind, << >>,
                                      Span(span_range(m).start, span_range(m).end, line, column), slice(m)))
    /\ position' = cur.position
    /\ line' = cur.line
    /\ column' = cur.column
    /\ logos_lex' = Advanced(m)
    /\ UNCHANGED <<error_manager, pc>>

\* the LineComment | Newline arm
SkipMatch(m) ==
    LET cur == update_position([position |-> position, line |-> line, column |-> column], slice(m)) IN
    /\ position' = cur.position
    /\ line' = cur.line
    /\ column' = cur.column
    /\ logos_lex' = Advanced(m)
    /\ UNCHANGED <<tokens, error_manager, pc>>

\* the fast path: direct token mapping
FastPath(m) ==
    LET sr == span_range(m)
        lexeme == slice(m)
        span == Span(sr.start, sr.end, line, column)
        cur == update_position([position |-> position, line |-> line, column |-> column], lexeme)
    IN  /\ tokens' = Append(tokens, Token(token_kind(m, lexeme), map_logos_token(m, lexeme), span, lexeme))
        /\ position' = cur.position
        /\ line' = cur.line
        /\ column' = cur.column
        /\ logos_lex' = Advanced(m)
        /\ UNCHANGED <<error_manager, pc>>

\* the runs that are followed further
Followed == Len(tokens) < MaxTokens /\ line < MaxCursor /\ column < MaxCursor

\* one turn of the loop of tokenize on Ok(logos_token)
handle_logos_token ==
    /\ pc = "scanning"
    /\ Followed
    /\ \E m \in NextMatches :
        /\ m.kind # "Error"
        /\ CASE m.kind \in Sentinels -> HandOff(m)
             [] m.kind \in {"LineComment", "Newline"} -> SkipMatch(m)
             [] OTHER -> FastPath(m)
    /\ UNCHANGED <<input, result, span_vars, logger_vars, call_vars, instance_vars>>

\* one turn of the loop of tokenize on Err(_)
handle_error ==
    /\ pc = "scanning"
    /\ Followed
    /\ \E m \in NextMatches :
        /\ m.kind = "Error"
        /\ LET sr == span_range(m)
               lexeme == slice(m)
               span == Span(sr.start, sr.end, line, column)
               ch == Head(lexeme)
               cur == update_position([position |-> position, line |-> line, column |-> column], lexeme)
           IN  /\ error_manager' = add_lexical_error(error_manager, UnexpectedChar(ch, span))
               /\ tokens' = Append(tokens, TokenError(<<"Unexpected character: ", ch>>, span))
               /\ position' = cur.position
               /\ line' = cur.line
               /\ column' = cur.column
               /\ logos_lex' = Advanced(m)
    /\ UNCHANGED <<input, pc, result, span_vars, logger_vars, call_vars, instance_vars>>

\* the Eof token tokenize appends
EofToken == Token("Eof", << >>, Span(position, position, line, column), << >>)

\* the token sequence left without the Eof token
WithoutEof == tokens

\* the token sequence with the Eof token appended
WithEof == Append(tokens, EofToken)

\* the end of tokenize: the automaton is exhausted
tokenize_return ==
    /\ pc = "scanning"
    /\ NextMatches = {}
    /\ tokens' = WithEof
    /\ result' = IF has_errors(error_manager)
                 THEN [tag |-> "Err", tokens |-> << >>, error_manager |-> error_manager]
                 ELSE [tag |-> "Ok", tokens |-> tokens', error_manager |-> NewErrorManager(<< >>)]
    /\ pc' = "done"
    /\ UNCHANGED <<input, logos_lex, error_manager, position, line, column, span_vars, logger_vars, call_vars, instance_vars>>

\* LogosLexer::new(inp)
NewLogosLexerDriver(inp) ==
    /\ input = inp
    /\ logos_lex = NewLogosLexer(0)
    /\ error_manager = NewErrorManager(inp)
    /\ position = 0
    /\ line = 1
    /\ column = 1
    /\ tokens = << >>
    /\ pc = "scanning"
    /\ result = NoResult

\* no span is being merged
NoMerge ==
    /\ self_span = Span(0, 0, 1, 1)
    /\ other_span = Span(0, 0, 1, 1)
    /\ merged = << >>

\* the Logger as the process starts: enabled, nothing written
NewLogger ==
    /\ LOGGER_ENABLED = TRUE
    /\ stderr = << >>

\* nothing has been returned by take_errors and format_lexical_error
NoCalls ==
    /\ taken = << >>
    /\ output = << >>

\* no further instance runs
NoInstances == lexers = << >>

Init ==
    /\ \E inp \in Inputs : NewLogosLexerDriver(inp)
    /\ NoMerge
    /\ NewLogger
    /\ NoCalls
    /\ NoInstances

Next == handle_logos_token \/ handle_error \/ tokenize_return

Spec == Init /\ [][Next]_vars

\* ------------------------------------------------------------------------
\* Span::merge on its own: two spans are drawn and merged
\* ------------------------------------------------------------------------
\* the greatest byte offset of a drawn span
MaxOffset == 3

\* the greatest line and column of a drawn span
MaxLineCol == 2

Spans == { Span(st, en, ln, col) : st \in 0..MaxOffset, en \in 0..MaxOffset,
                                   ln \in 1..MaxLineCol, col \in 1..MaxLineCol }

SpanInit ==
    /\ NewLogosLexerDriver(<< >>)
    /\ self_span \in Spans
    /\ other_span \in Spans
    /\ merged = << >>
    /\ NewLogger
    /\ NoCalls
    /\ NoInstances

\* self_span.merge(&other_span)
Merge ==
    /\ merged = << >>
    /\ merged' = <<merge(self_span, other_span)>>
    /\ UNCHANGED <<driver_vars, self_span, other_span, logger_vars, call_vars, instance_vars>>

SpanNext == Merge

SpanSpec == SpanInit /\ [][SpanNext]_vars

\* ------------------------------------------------------------------------
\* The Logger and an ErrorManager on their own: faults are added to the
\* manager of a fresh lexer, the logger is switched, messages are logged and
\* the manager is reported
\* ------------------------------------------------------------------------
\* the most faults added to the manager
MaxFaults == 2

\* nothing more is written once the stream holds this many lines
MaxLines == 2

\* the source the faults are about: two lines
SampleSource == <<"a", BT, NL, "@", QUOTE, "b">>

\* faults with a suggestion (the first two) and without one (the last two)
SampleFaults ==
    { UnexpectedChar(BT, Span(1, 2, 1, 2)),
      UnterminatedString(Span(3, 6, 2, 1), "Verbatim"),
      InvalidNumber(<<"1", "2">>, Span(0, 1, 1, 1), "out of range"),
      InvalidNumber(<<"7">>, Span(9, 9, 3, 1), "out of range") }

SampleTexts == { <<"Lexing failed:">> }

LoggerInit ==
    /\ NewLogosLexerDriver(SampleSource)
    /\ NoMerge
    /\ NewLogger
    /\ NoCalls
    /\ NoInstances

\* something is written only while the stream is short
Writing == Len(stderr) < MaxLines

\* error_manager.add_lexical_error(err)
AddLexicalError ==
    /\ error_count(error_manager) < MaxFaults
    /\ \E err \in SampleFaults : error_manager' = add_lexical_error(error_manager, err)
    /\ UNCHANGED <<input, logos_lex, position, line, column, tokens, pc, result, span_vars, logger_vars, call_vars, instance_vars>>

\* Logger::enable
LoggerEnable ==
    /\ LOGGER_ENABLED' = TRUE
    /\ UNCHANGED <<driver_vars, span_vars, stderr, call_vars, instance_vars>>

\* Logger::disable
LoggerDisable ==
    /\ LOGGER_ENABLED' = FALSE
    /\ UNCHANGED <<driver_vars, span_vars, stderr, call_vars, instance_vars>>

\* Logger::debug, Logger::info, Logger::warning, Logger::error
LoggerLog ==
    /\ Writing
    /\ \E level \in LogLevels, text \in SampleTexts :
          stderr' = stderr \o log(LOGGER_ENABLED, level, text)
    /\ UNCHANGED <<driver_vars, span_vars, LOGGER_ENABLED, call_vars, instance_vars>>

\* Logger::formatted_error(err, span, source)
LoggerFormattedError ==
    /\ Writing
    /\ \E err \in SampleFaults :
          stderr' = stderr \o formatted_error(LOGGER_ENABLED, err, err.span, SampleSource)
    /\ UNCHANGED <<driver_vars, span_vars, LOGGER_ENABLED, call_vars, instance_vars>>

\* error_manager.report_all()
ReportAll ==
    /\ Writing
    /\ stderr' = stderr \o report_all(LOGGER_ENABLED, error_manager)
    /\ UNCHANGED <<driver_vars, span_vars, LOGGER_ENABLED, call_vars, instance_vars>>

LoggerNext ==
    \/ AddLexicalError
    \/ LoggerEnable
    \/ LoggerDisable
    \/ LoggerLog
    \/ LoggerFormattedError
    \/ ReportAll

LoggerSpec == LoggerInit /\ [][LoggerNext]_vars

\* ------------------------------------------------------------------------
\* An ErrorManager on its own: faults are added to the manager of a fresh
\* lexer and taken out of it
\* ------------------------------------------------------------------------
\* error_manager.take_errors()
TakeErrors ==
    /\ error_manager' = take_errors(error_manager).manager
    /\ taken' = <<take_errors(error_manager).errors>>
    /\ UNCHANGED <<input, logos_lex, position, line, column, tokens, pc, result, span_vars, logger_vars, output, instance_vars>>

ManagerNext == AddLexicalError \/ TakeErrors

ManagerSpec == LoggerInit /\ [][ManagerNext]_vars

\* ------------------------------------------------------------------------
\* DiagnosticFormatter::format_lexical_error on its own: a source is drawn,
\* then faults are drawn and formatted against it
\* ------------------------------------------------------------------------
\* sources of no, one, two and three lines, with and without a final break
FormatSources ==
    { << >>, SampleSource, <<"a", NL>>, <<"a", "b", CR, NL, NL, "c">> }

\* the lines and columns of the drawn faults: 0, the lines of the sources,
\* lines beyond them, and numbers of two and three digits
FormatLineCols == 0..(MaxLineCol + 2) \cup {10, 100}

\* the drawn faults: with a suggestion (the first three) and without one
FormatFaults ==
    UNION { { UnexpectedChar(BT, Span(0, 1, ln, col)),
              UnterminatedString(Span(0, 1, ln, col), "Normal"),
              InvalidNumber(<<"1", ".", ".", "2">>, Span(0, 1, ln, col), "bad"),
              InvalidNumber(<<"1", "2">>, Span(0, 1, ln, col), "out of range") }
            : ln \in FormatLineCols, col \in FormatLineCols }

FormatInit ==
    /\ \E src \in FormatSources : NewLogosLexerDriver(src)
    /\ NoMerge
    /\ NewLogger
    /\ NoCalls
    /\ NoInstances

\* DiagnosticFormatter::format_lexical_error(&err, &source)
FormatLexicalError ==
    /\ \E err \in FormatFaults :
          output' = [error |-> err, source |-> input, text |-> format_lexical_error(err, input)]
    /\ UNCHANGED <<driver_vars, span_vars, logger_vars, taken, instance_vars>>

FormatNext == FormatLexicalError

FormatSpec == FormatInit /\ [][FormatNext]_vars

\* ------------------------------------------------------------------------
\* Several LogosLexer instances side by side.  An instance owns all of its
\* fields (tokenize takes self by value), so it is a record of them; the
\* only statics of the crate are the immutable KEYWORDS map and the flag of
\* the Logger.
\* ------------------------------------------------------------------------
\* the instances that run side by side
MaxInstances == 2

\* LogosLexer::new(inp) as a value
LogosLexerNew(inp) ==
    [input |-> inp, logos_lex |-> NewLogosLexer(0), error_manager |-> NewErrorManager(inp),
     position |-> 0, line |-> 1, column |-> 1, tokens |-> << >>, pc |-> "scanning", result |-> NoResult]

\* the slice the automaton of the instance d runs on
SourceOf(d) == StrSlice(d.input, d.logos_lex.base, ByteLen(d.input))

\* the matches d.logos_lex.next() can return
MatchesOf(d) == LogosNext(SourceOf(d), CharIndex(SourceOf(d), d.logos_lex.token_end))

\* one turn of the loop of tokenize of the instance d on the match m:
\* handle_error, or handle_logos_token with its sentinel arms, its
\* LineComment | Newline arm and its fast path
TurnOn(d, m) ==
    LET src == SourceOf(d)
        sr == [start |-> ByteOffset(src, m.start), end |-> ByteOffset(src, m.end)]
        lexeme == SubSeq(src, m.start + 1, m.end)
        span == Span(sr.start, sr.end, d.line, d.column)
        advanced == [d.logos_lex EXCEPT !.token_end = sr.end]
        cur == update_position([position |-> d.position, line |-> d.line, column |-> d.column], lexeme)
        moved == [d EXCEPT !.position = cur.position, !.line = cur.line, !.column = cur.column,
                           !.logos_lex = advanced]
    IN  CASE m.kind = "Error" ->
                [moved EXCEPT !.error_manager = add_lexical_error(@, UnexpectedChar(Head(lexeme), span)),
                              !.tokens = Append(@, TokenError(<<"Unexpected character: ", Head(lexeme)>>, span))]
          [] m.kind \in Sentinels ->
                LET r == Delegate(m.kind, d.input, sr.start, d.line, d.column) IN
                (CASE r.tag = "Ok" ->
                        [d EXCEPT !.tokens = IF m.kind = "BlockCommentStart" THEN @ ELSE Append(@, r.token),
                                  !.position = r.pos, !.line = r.line, !.column = r.column,
                                  !.logos_lex = IF SliceOk(d.input, r.pos, ByteLen(d.input))
                                                THEN NewLogosLexer(r.pos) ELSE advanced,
                                  !.pc = IF SliceOk(d.input, r.pos, ByteLen(d.input)) THEN @ ELSE "panic"]
                   [] r.tag = "Err" ->
                        [d EXCEPT !.error_manager = add_lexical_error(@, r.err), !.logos_lex = advanced]
                   [] r.tag = "Panic" ->
                        [d EXCEPT !.pc = "panic", !.logos_lex = advanced])
          [] m.kind \in {"LineComment", "Newline"} -> moved
          [] OTHER ->
                [moved EXCEPT !.tokens = Append(@, Token(token_kind(m, lexeme), map_logos_token(m, lexeme),
                                                         span, lexeme))]

\* the end of tokenize, had the branch it returns depended on the Logger
ReturnOfLogged(d) ==
    LET all == Append(d.tokens, Token("Eof", << >>, Span(d.position, d.position, d.line, d.column), << >>))
    IN  [d EXCEPT !.tokens = all,
                  !.result = IF LOGGER_ENABLED /\ has_errors(d.error_manager)
                             THEN [tag |-> "Err", tokens |-> << >>, error_manager |-> d.error_manager]
                             ELSE [tag |-> "Ok", tokens |-> all, error_manager |-> NewErrorManager(<< >>)],
                  !.pc = "done"]

\* the end of tokenize of the instance d: the Eof token and the outcome
ReturnOf(d) ==
    LET all == Append(d.tokens, Token("Eof", << >>, Span(d.position, d.position, d.line, d.column), << >>))
    IN  [d EXCEPT !.tokens = all,
                  !.result = IF has_errors(d.error_manager)
                             THEN [tag |-> "Err", tokens |-> << >>, error_manager |-> d.error_manager]
                             ELSE [tag |-> "Ok", tokens |-> all, error_manager |-> NewErrorManager(<< >>)],
                  !.pc = "done"]

\* the instances d can become by its next step
TurnsOf(d) ==
    IF d.pc # "scanning" THEN {}
    ELSE IF MatchesOf(d) = {} THEN {ReturnOf(d)}
    ELSE {TurnOn(d, m) : m \in MatchesOf(d)}

\* the inputs of the instances: blanks, a token behind a verbatim string, a
\* stray character, an unterminated string, a comment and a line break
ConcurrentInputs ==
    { <<"a", " ", "b">>,
      <<"@", QUOTE, "a", QUOTE, "b">>,
      <<"a", BT, "1">>,
      <<"$", QUOTE, "{", "a", "}", "b">>,
      <<"/", "*", "a", "*", "/", NL, "i", "f">> }

ConcurrentInit ==
    /\ NewLogosLexerDriver(<< >>)
    /\ NoMerge
    /\ NewLogger
    /\ NoCalls
    /\ lexers \in [1..MaxInstances -> {LogosLexerNew(inp) : inp \in ConcurrentInputs}]

\* one step of tokenize of one of the instances
Tokenize ==
    /\ \E i \in DOMAIN lexers : \E e \in TurnsOf(lexers[i]) : lexers' = [lexers EXCEPT ![i] = e]
    /\ UNCHANGED <<driver_vars, span_vars, logger_vars, call_vars>>

ConcurrentNext == Tokenize \/ LoggerEnable \/ LoggerDisable

ConcurrentSpec == ConcurrentInit /\ [][ConcurrentNext]_vars

\* ------------------------------------------------------------------------
\* Properties
\* ------------------------------------------------------------------------
\* the byte offset of the original source the automaton stands at
AbsOffset == logos_lex.base + logos_lex.token_end

\* the match the next turn of the loop handles, when it is not a failure
NextMatch == CHOOSE m \in NextMatches : TRUE

\* the character index, in the original source, where the match m starts
TrueStart(m) == CharIndex(input, logos_lex.base) + m.start

NextIs(kinds) == pc = "scanning" /\ NextMatches # {} /\ NextMatch.kind \in kinds

\* C1: every turn of the driver loop leaves the automaton at a strictly
\* greater byte offset of the original source, so tokenize terminates.
C1_EveryStepAdvances ==
    [][(pc = "scanning" /\ pc' = "scanning") => AbsOffset' > AbsOffset]_vars

\* C2: tokenize returns Ok with the token sequence exactly when no fault is
\* stored; otherwise it returns the ErrorManager, holding 1 to 100 faults,
\* and not the tokens built so far.
C2_OutcomeFollowsFaults ==
    pc = "done" =>
        /\ result.tag \in {"Ok", "Err"}
        /\ (result.tag = "Ok") <=> (error_manager.lexical_errors = << >>)
        /\ result.tag = "Ok" => result.tokens = tokens
        /\ result.tag = "Err" =>
              /\ result.error_manager = error_manager
              /\ Len(result.error_manager.lexical_errors) >= 1
              /\ Len(result.error_manager.lexical_errors) <= 100
              /\ result.tokens = << >>

\* a run with one fault and several tokens has returned the ErrorManager
C2_Witness ==
    pc = "done" /\ result.tag = "Err" /\ Len(error_manager.lexical_errors) = 1 /\ Len(tokens) >= 3

\* C3: the token sequence held when tokenize finishes is non-empty, ends
\* with Eof and holds no other Eof, for every input, the empty one included.
C3_ExactlyOneEofLast ==
    pc = "done" =>
        /\ Len(tokens) >= 1
        /\ tokens[Len(tokens)].kind = "Eof"
        /\ \A i \in 1..(Len(tokens) - 1) : tokens[i].kind # "Eof"

\* a successful run over several tokens has finished
C3_Witness == pc = "done" /\ result.tag = "Ok" /\ Len(tokens) >= 3

\* C4: in a success output every token but Eof and error tokens has
\* source[span.start..span.end] = lexeme.
C4_LexemeIsSourceSlice ==
    (pc = "done" /\ result.tag = "Ok") =>
        \A i \in 1..Len(result.tokens) :
            LET t == result.tokens[i] IN
            t.kind \notin {"Eof", "Error"} =>
                /\ SliceOk(input, t.span.start, t.span.end)
                /\ StrSlice(input, t.span.start, t.span.end) = t.lexeme

\* C5: tokenize never aborts: no slice of the source is taken out of bounds
\* or off a character boundary.
C5_NeverAborts == pc # "panic"

\* the stray characters of an input without comments, braces and escapes
\* that stand outside every string (an even number of quotes before them)
StrayOutsideStrings(inp) ==
    IF \E i \in 1..Len(inp) : inp[i] \in {"/", "{", "}", BSLASH} THEN {}
    ELSE {i \in 1..Len(inp) :
            /\ inp[i] = BT
            /\ Cardinality({j \in 1..(i - 1) : inp[j] = QUOTE}) % 2 = 0}

\* C6: an input with two or more independent defects yields the failure
\* branch with at least two faults.
C6_TwoDefectsTwoFaults ==
    (pc = "done" /\ Cardinality(StrayOutsideStrings(input)) >= 2) =>
        /\ result.tag = "Err"
        /\ error_count(result.error_manager) >= 2

RECURSIVE RefBlockScan(_, _, _)
\* The block comment as the language defines it, read character by character
\* from index i with nesting counter d: the index behind the closing marker
\* that brings the counter to 0, or -d when the input ends at depth d.
RefBlockScan(s, i, d) ==
    IF d = 0 THEN i
    ELSE IF i >= Len(s) THEN 0 - d
    ELSE IF HasPrefixAt(s, i, <<"/", "*">>) THEN RefBlockScan(s, i + 2, d + 1)
    ELSE IF HasPrefixAt(s, i, <<"*", "/">>) THEN RefBlockScan(s, i + 2, d - 1)
    ELSE RefBlockScan(s, i + 1, d)

\* C8: a balanced block comment is consumed up to and including the closing
\* marker that brings the counter to 0, yields no token and no fault, and
\* scanning resumes right behind that marker.
C8_BalancedCommentSkipped ==
    [][(NextIs({"BlockCommentStart"}) /\ RefBlockScan(input, TrueStart(NextMatch) + 2, 1) >= 0) =>
          /\ tokens' = tokens
          /\ error_manager' = error_manager
          /\ pc' = "scanning"
          /\ AbsOffset' = ByteOffset(input, RefBlockScan(input, TrueStart(NextMatch) + 2, 1))
      ]_vars

\* C9: when the input ends inside a block comment the fault is
\* UnterminatedBlockComment with the remaining depth and a span from the
\* opening marker to the end of the input.
C9_UnterminatedCommentFault ==
    [][(NextIs({"BlockCommentStart"}) /\ RefBlockScan(input, TrueStart(NextMatch) + 2, 1) < 0
            /\ error_count(error_manager) < 100) =>
          /\ error_count(error_manager') = error_count(error_manager) + 1
          /\ LET f == error_manager'.lexical_errors[error_count(error_manager')] IN
             /\ f.kind = "UnterminatedBlockComment"
             /\ f.nesting_level = 0 - RefBlockScan(input, TrueStart(NextMatch) + 2, 1)
             /\ f.nesting_level >= 1
             /\ f.span.start = ByteOffset(input, TrueStart(NextMatch))
             /\ f.span.end = ByteLen(input)
      ]_vars

RECURSIVE RefDocEnd(_, _)
\* the index behind the first closing marker at or after index i, or -1
RefDocEnd(s, i) ==
    IF i >= Len(s) THEN 0 - 1
    ELSE IF HasPrefixAt(s, i, <<"*", "/">>) THEN i + 2
    ELSE RefDocEnd(s, i + 1)

\* C10: a doc comment ends at the first closing marker behind its sigil and
\* is emitted as one DocComment token holding the trimmed body; block
\* comments and line comments produce no token.
C10_DocCommentToken ==
    [][/\ (NextIs({"DocCommentStar", "DocCommentBang"}) /\ RefDocEnd(input, TrueStart(NextMatch) + 3) >= 0) =>
             LET b == TrueStart(NextMatch)
                 e == RefDocEnd(input, b + 3)
             IN  /\ Len(tokens') = Len(tokens) + 1
                 /\ SubSeq(tokens', 1, Len(tokens)) = tokens
                 /\ tokens'[Len(tokens')].kind = "DocComment"
                 /\ tokens'[Len(tokens')].value = Trim(SubSeq(input, b + 4, e - 2))
                 /\ tokens'[Len(tokens')].span.end = ByteOffset(input, e)
                 /\ AbsOffset' = ByteOffset(input, e)
       /\ NextIs({"BlockCommentStart", "LineComment"}) => tokens' = tokens
      ]_vars

RECURSIVE RefExprEnd(_, _, _)
\* The interpolation expression as the language defines it, read from index i
\* at brace depth d: the index behind the brace that brings the depth to 0,
\* or -1 when the input ends first.
RefExprEnd(s, i, d) ==
    IF d = 0 THEN i
    ELSE IF i >= Len(s) THEN 0 - 1
    ELSE IF s[i + 1] = "{" THEN RefExprEnd(s, i + 1, d + 1)
    ELSE IF s[i + 1] = "}" THEN RefExprEnd(s, i + 1, d - 1)
    ELSE RefExprEnd(s, i + 1, d)

\* the character an accepted escape of an interpolated string denotes
RefEscape(c) ==
    CASE c = "n" -> NL
      [] c = "t" -> TAB
      [] c = "r" -> CR
      [] c = BSLASH -> BSLASH
      [] c = QUOTE -> QUOTE
      [] c = "{" -> "{"
      [] c = "}" -> "}"

RefEscapes == {"n", "t", "r", BSLASH, QUOTE, "{", "}"}

RefOutcome(tag, parts, end) == [tag |-> tag, parts |-> parts, end |-> end]

RefFlush(parts, text) == IF text = << >> THEN parts ELSE Append(parts, TextPart(text))

RECURSIVE RefInterpolated(_, _, _, _)
\* The interpolated string as the language defines it, read from index i
\* (behind the sigil) with the pending text and the parts so far.  The outcome
\* is Ok with the parts and the index behind the closing quote, Unterminated,
\* Unclosed (an expression without its closing brace), or BadEscape with the
\* index of the backslash.
RefInterpolated(s, i, text, parts) ==
    IF i >= Len(s) THEN RefOutcome("Unterminated", parts, Len(s))
    ELSE LET ch == s[i + 1] IN
         CASE ch = QUOTE -> RefOutcome("Ok", RefFlush(parts, text), i + 1)
           [] ch = "{" ->
                LET e == RefExprEnd(s, i + 1, 1) IN
                IF e < 0 THEN RefOutcome("Unclosed", parts, Len(s))
                ELSE RefInterpolated(s, e, << >>,
                         Append(RefFlush(parts, text), ExprPart(Trim(SubSeq(s, i + 2, e - 1)))))
           [] ch = BSLASH ->
                IF i + 1 >= Len(s) THEN RefOutcome("Unterminated", parts, Len(s))
                ELSE IF s[i + 2] \in RefEscapes
                THEN RefInterpolated(s, i + 2, Append(text, RefEscape(s[i + 2])), parts)
                ELSE RefOutcome("BadEscape", parts, i)
           [] OTHER -> RefInterpolated(s, i + 1, Append(text, ch), parts)

\* the token the turn of the loop has appended, when it appended exactly one
Pushed == tokens'[Len(tokens')]

PushedOne == Len(tokens') = Len(tokens) + 1 /\ SubSeq(tokens', 1, Len(tokens)) = tokens

\* C11: an interpolated string is decomposed into Text and Expr parts in
\* source order, pending text being flushed at an opening brace and at the
\* closing quote, and the first quote outside an expression ends the
\* literal; the simple interpolation of spec 5 yields exactly Text("Hello, "),
\* Expr("name"), Text("!").
C11_InterpolatedParts ==
    [][/\ (NextIs({"InterpolatedStringStart"})
            /\ RefInterpolated(input, TrueStart(NextMatch) + 2, << >>, << >>).tag = "Ok") =>
             LET ref == RefInterpolated(input, TrueStart(NextMatch) + 2, << >>, << >>) IN
             /\ PushedOne
             /\ Pushed.kind = "InterpolatedString"
             /\ Pushed.value = ref.parts
             /\ AbsOffset' = ByteOffset(input, ref.end)
       /\ (input = HelloName /\ pc' = "done") =>
             tokens'[1].value = << TextPart(<<"H", "e", "l", "l", "o", ",", " ">>),
                                   ExprPart(<<"n", "a", "m", "e">>),
                                   TextPart(<<"!">>) >>
      ]_vars

RECURSIVE RefInterpolatedVerbatim(_, _, _, _)
\* The interpolated verbatim string as the language defines it, read from
\* index i behind the sigil: a doubled quote is one quote of text, a single
\* quote ends the literal, a brace opens an expression, nothing else is special.
RefInterpolatedVerbatim(s, i, text, parts) ==
    IF i >= Len(s) THEN RefOutcome("Unterminated", parts, Len(s))
    ELSE LET ch == s[i + 1] IN
         CASE ch = QUOTE ->
                IF HasPrefixAt(s, i, <<QUOTE, QUOTE>>)
                THEN RefInterpolatedVerbatim(s, i + 2, Append(text, QUOTE), parts)
                ELSE RefOutcome("Ok", RefFlush(parts, text), i + 1)
           [] ch = "{" ->
                LET e == RefExprEnd(s, i + 1, 1) IN
                IF e < 0 THEN RefOutcome("Unclosed", parts, Len(s))
                ELSE RefInterpolatedVerbatim(s, e, << >>,
                         Append(RefFlush(parts, text), ExprPart(Trim(SubSeq(s, i + 2, e - 1)))))
           [] OTHER -> RefInterpolatedVerbatim(s, i + 1, Append(text, ch), parts)

\* the Expr parts among parts, in order
ExprsOf(parts) == SelectSeq(parts, LAMBDA p : p.tag = "Expr")

\* C12: an expression is captured with its own brace depth starting at 1, up
\* to the closing brace that brings the depth to 0 (not part of the text);
\* inner braces and quotes are kept and do not end the string, and the text
\* is trimmed: the Expr parts of the literal are exactly the trimmed texts
\* between each opening brace and its matching closing brace.
C12_ExpressionCapture ==
    [][/\ (NextIs({"InterpolatedStringStart"})
            /\ RefInterpolated(input, TrueStart(NextMatch) + 2, << >>, << >>).tag = "Ok") =>
             /\ PushedOne
             /\ Pushed.kind = "InterpolatedString"
             /\ ExprsOf(Pushed.value) =
                    ExprsOf(RefInterpolated(input, TrueStart(NextMatch) + 2, << >>, << >>).parts)
       /\ (NextIs({"InterpolatedVerbatimStart"})
            /\ RefInterpolatedVerbatim(input, TrueStart(NextMatch) + 3, << >>, << >>).tag = "Ok") =>
             /\ PushedOne
             /\ Pushed.kind = "InterpolatedString"
             /\ ExprsOf(Pushed.value) =
                    ExprsOf(RefInterpolatedVerbatim(input, TrueStart(NextMatch) + 3, << >>, << >>).parts)
       /\ (input = NestedBraces /\ pc' = "done") =>
             ExprsOf(tokens'[1].value) = << ExprPart(<<"a", "r", "r", "[", "{", "i", "d", "x", "}", "]">>) >>
       /\ (input = QuoteInExpr /\ pc' = "done") =>
             tokens'[1].value = << ExprPart(<<"a", QUOTE, "b">>) >>
      ]_vars

\* the last fault stored
LastFault == error_manager.lexical_errors[error_count(error_manager)]

\* the turn of the loop has stored exactly one more fault
StoredOne ==
    /\ error_count(error_manager') = error_count(error_manager) + 1
    /\ SubSeq(error_manager'.lexical_errors, 1, error_count(error_manager)) = error_manager.lexical_errors

\* the suggestion that lists the seven escapes an interpolated string accepts
SevenEscapesSuggestion ==
    << "Valid escape sequences: ", <<BSLASH, "n">>, ", ", <<BSLASH, "t">>, ", ", <<BSLASH, "r">>, ", ",
       <<BSLASH, BSLASH>>, ", ", <<BSLASH, QUOTE>>, ", ", <<BSLASH, "{">>, ", ", <<BSLASH, "}">> >>

\* C13: in an interpolated (non-verbatim) string each escape \n \t \r \\ \"
\* \{ \} of a text segment is replaced by the character it denotes, expression
\* source is left raw, and any other character behind a backslash makes the
\* scan fail with InvalidEscape, whose suggestion lists the seven sequences.
C13_EscapesResolved ==
    [][LET ref == RefInterpolated(input, TrueStart(NextMatch) + 2, << >>, << >>) IN
       /\ (NextIs({"InterpolatedStringStart"}) /\ ref.tag = "Ok"
             /\ \E i \in (TrueStart(NextMatch) + 3)..ref.end : input[i] = BSLASH) =>
             /\ PushedOne
             /\ Pushed.kind = "InterpolatedString"
             /\ Pushed.value = ref.parts
             /\ error_manager' = error_manager
       /\ (NextIs({"InterpolatedStringStart"}) /\ ref.tag = "BadEscape"
             /\ error_count(error_manager) < 100) =>
             /\ tokens' = tokens
             /\ StoredOne
             /\ LastFault'.kind = "InvalidEscape"
             /\ LastFault'.sequence = <<BSLASH, input[ref.end + 2]>>
             /\ suggestion(LastFault') = SevenEscapesSuggestion
       /\ (input = EscapesAroundExpr /\ pc' = "done") =>
             tokens'[1].value = << TextPart(<<"L", "i", "n", "e", " ", "1", NL>>),
                                   ExprPart(<<"c", "o", "n", "t", "e", "n", "t">>),
                                   TextPart(<<NL, "L", "i", "n", "e", " ", "3">>) >>
       /\ (input = EscapedQuoteBraces /\ pc' = "done") =>
             tokens'[1].value = << TextPart(<<QUOTE, "{", "a", "}">>) >>
       /\ (input = EscapeInExpr /\ pc' = "done") =>
             tokens'[1].value = << ExprPart(<<"a", BSLASH, "n">>) >>
      ]_vars

RECURSIVE RefVerbatim(_, _, _)
\* The verbatim string as the language defines it, read from index i behind
\* the sigil: a doubled quote is one quote of content, a single quote ends
\* the literal, every other character is content.
RefVerbatim(s, i, content) ==
    IF i >= Len(s) THEN [tag |-> "Unterminated", content |-> content, end |-> Len(s)]
    ELSE IF HasPrefixAt(s, i, <<QUOTE, QUOTE>>) THEN RefVerbatim(s, i + 2, Append(content, QUOTE))
    ELSE IF s[i + 1] = QUOTE THEN [tag |-> "Ok", content |-> content, end |-> i + 1]
    ELSE RefVerbatim(s, i + 1, Append(content, s[i + 1]))

\* C14: in a verbatim string a doubled quote contributes one quote and does
\* not terminate, a single quote terminates, and every other character, the
\* backslash included, is copied unchanged; the literal of spec 5 yields
\* VerbatimString(She said "Hello"!).
C14_VerbatimContent ==
    [][/\ (NextIs({"VerbatimStringStart"}) /\ RefVerbatim(input, TrueStart(NextMatch) + 2, << >>).tag = "Ok") =>
             /\ PushedOne
             /\ Pushed.kind = "VerbatimString"
             /\ Pushed.value = RefVerbatim(input, TrueStart(NextMatch) + 2, << >>).content
             /\ error_manager' = error_manager
       /\ (input = SheSaid /\ pc' = "done") =>
             tokens'[1].value = <<"S", "h", "e", " ", "s", "a", "i", "d", " ", QUOTE, "H", "e", "l", "l", "o", QUOTE, "!">>
       /\ (input = VerbatimBackslash /\ pc' = "done") =>
             tokens'[1].value = <<"C", ":", BSLASH, "U">>
      ]_vars

\* the sigil length and the subtype of the three delegated string forms
SigilLen(kind) == IF kind = "InterpolatedVerbatimStart" THEN 3 ELSE 2

Subtype(kind) ==
    CASE kind = "InterpolatedStringStart" -> "Interpolated"
      [] kind = "VerbatimStringStart" -> "Verbatim"
      [] kind = "InterpolatedVerbatimStart" -> "InterpolatedVerbatim"

\* how the string literal opened by the sentinel m ends, as the language defines it
RefStringTag(m) ==
    CASE m.kind = "InterpolatedStringStart" -> RefInterpolated(input, TrueStart(m) + 2, << >>, << >>).tag
      [] m.kind = "VerbatimStringStart" -> RefVerbatim(input, TrueStart(m) + 2, << >>).tag
      [] m.kind = "InterpolatedVerbatimStart" ->
            RefInterpolatedVerbatim(input, TrueStart(m) + 3, << >>, << >>).tag

StringSentinels == {"InterpolatedStringStart", "VerbatimStringStart", "InterpolatedVerbatimStart"}

\* C15: when the input ends before the closing quote of an interpolated,
\* verbatim or interpolated-verbatim string, and not inside an open
\* expression, the fault is UnterminatedString tagged with that subtype,
\* with a span from the opening sigil to the end of the input.
C15_UnterminatedDelegated ==
    [][(NextIs(StringSentinels) /\ RefStringTag(NextMatch) = "Unterminated"
            /\ error_count(error_manager) < 100) =>
          /\ StoredOne
          /\ tokens' = tokens
          /\ LastFault'.kind = "UnterminatedString"
          /\ LastFault'.string_type = Subtype(NextMatch.kind)
          /\ LastFault'.span.start = ByteOffset(input, TrueStart(NextMatch))
          /\ LastFault'.span.end = ByteLen(input)
      ]_vars

RECURSIVE RefPlainOpen(_, _)
\* the plain string read from index i, behind its opening quote, runs to the
\* end of the input without a closing quote (a backslash takes the next
\* character with it)
RefPlainOpen(s, i) ==
    IF i >= Len(s) THEN TRUE
    ELSE IF s[i + 1] = QUOTE THEN FALSE
    ELSE IF s[i + 1] = BSLASH /\ i + 1 < Len(s) THEN RefPlainOpen(s, i + 2)
    ELSE RefPlainOpen(s, i + 1)

\* C16: a plain double-quoted string whose closing quote is missing before
\* the end of the input is reported as UnterminatedString with the Normal
\* subtype, whose suggestion is to add the closing quote.
C16_UnterminatedPlain ==
    [][(NextIs({"Error"}) /\ input[TrueStart(NextMatch) + 1] = QUOTE
            /\ RefPlainOpen(input, TrueStart(NextMatch) + 1)
            /\ error_count(error_manager) < 100) =>
          /\ StoredOne
          /\ LastFault'.kind = "UnterminatedString"
          /\ LastFault'.string_type = "Normal"
          /\ suggestion(LastFault') = <<"Add closing quote \"">>
      ]_vars

\* C17: when an interpolation expression is not closed by its matching brace
\* before the end of the input, the scan fails with InvalidInterpolation (not
\* UnterminatedString), with the suggestion to add the closing brace and a
\* span at the end of the input.
C17_UnclosedExpression ==
    [][(NextIs({"InterpolatedStringStart", "InterpolatedVerbatimStart"})
            /\ RefStringTag(NextMatch) = "Unclosed"
            /\ error_count(error_manager) < 100) =>
          /\ StoredOne
          /\ tokens' = tokens
          /\ LastFault'.kind = "InvalidInterpolation"
          /\ suggestion(LastFault') = <<"Add closing }">>
          /\ LastFault'.span.start = ByteLen(input)
          /\ LastFault'.span.end = ByteLen(input)
      ]_vars

RECURSIVE RefPlain(_, _, _, _)
\* The plain string as the language defines it, read from index i behind the
\* opening quote: the escapes n t r backslash quote are resolved, any other
\* character behind a backslash is kept with its backslash (unknown tells
\* one was met), the first plain quote ends the literal.
RefPlain(s, i, value, unknown) ==
    IF i >= Len(s) THEN [tag |-> "Unterminated", value |-> value, end |-> Len(s), unknown |-> unknown]
    ELSE LET ch == s[i + 1] IN
         CASE ch = QUOTE -> [tag |-> "Ok", value |-> value, end |-> i + 1, unknown |-> unknown]
           [] ch = BSLASH /\ i + 1 < Len(s) ->
                IF s[i + 2] \in {"n", "t", "r", BSLASH, QUOTE}
                THEN RefPlain(s, i + 2, Append(value, RefEscape(s[i + 2])), unknown)
                ELSE RefPlain(s, i + 2, value \o <<BSLASH, s[i + 2]>>, TRUE)
           [] OTHER -> RefPlain(s, i + 1, Append(value, ch), unknown)

\* C18: a plain string holding an unknown escape is accepted as one StringLit
\* token without a fault, and its value keeps the backslash and the
\* following character.
C18_UnknownEscapeKept ==
    [][LET ref == RefPlain(input, TrueStart(NextMatch) + 1, << >>, FALSE) IN
       (NextIs({"StringLit", "Error"}) /\ input[TrueStart(NextMatch) + 1] = QUOTE
            /\ ref.tag = "Ok" /\ ref.unknown) =>
          /\ PushedOne
          /\ Pushed.kind = "StringLit"
          /\ Pushed.value = ref.value
          /\ error_manager' = error_manager
          /\ AbsOffset' = ByteOffset(input, ref.end)
      ]_vars

\* the digits of a literal: the lexeme behind its 0x or 0b prefix, without underscores
RefRadix(lexeme) ==
    IF HasPrefixAt(lexeme, 0, <<"0", "x">>) THEN 16
    ELSE IF HasPrefixAt(lexeme, 0, <<"0", "b">>) THEN 2
    ELSE 10

RefDigits(lexeme) ==
    LET body == IF RefRadix(lexeme) = 10 THEN lexeme ELSE SubSeq(lexeme, 3, Len(lexeme))
    IN  SelectSeq(body, LAMBDA c : c # "_")

RECURSIVE RefPositional(_, _)
\* the value of the digits read in the radix: the last digit plus radix times the rest
RefPositional(digits, radix) ==
    IF digits = << >> THEN 0
    ELSE RefPositional(SubSeq(digits, 1, Len(digits) - 1), radix) * radix + DigitVal(digits[Len(digits)])

RECURSIVE DecimalDigits(_, _)
\* the last width decimal digits of a natural number, most significant first
DecimalDigits(n, width) ==
    IF width = 0 THEN << >> ELSE Append(DecimalDigits(n \div 10, width - 1), n % 10)

RECURSIVE StripZeros(_)
StripZeros(v) == IF Len(v) > 1 /\ Head(v) = 0 THEN StripZeros(Tail(v)) ELSE v

RECURSIVE LimbDigits(_)
\* the decimal digits of an i64 payload, most significant first, zero padded
LimbDigits(v) == IF v = << >> THEN << >> ELSE LimbDigits(Tail(v)) \o DecimalDigits(Head(v), 8)

\* the digit values of the digits of a literal, without leading zeros
RefDigitValues(lexeme) == StripZeros([k \in 1..Len(RefDigits(lexeme)) |-> DigitVal(RefDigits(lexeme)[k])])

\* the number of digits behind the leading zeros
Significant(digits) == Len(StripZeros([i \in 1..Len(digits) |-> DigitVal(digits[i])]))

\* the literal is short enough for its value to be below 2^31
RefShort(lexeme) ==
    LET n == Significant(RefDigits(lexeme)) IN
    CASE RefRadix(lexeme) = 16 -> n <= 7
      [] RefRadix(lexeme) = 2 -> n <= 30
      [] RefRadix(lexeme) = 10 -> n <= 8

\* the text is one integer literal: digits of its radix and underscores behind
\* a first digit (and behind 0x or 0b)
RefIsIntLiteral(text) ==
    LET class == CASE RefRadix(text) = 16 -> HexDigits
                   [] RefRadix(text) = 2 -> {"0", "1"}
                   [] RefRadix(text) = 10 -> Digits
        first == IF RefRadix(text) = 10 THEN 1 ELSE 3
    IN  /\ Len(text) >= first
        /\ text[first] \in class
        /\ \A i \in (first + 1)..Len(text) : text[i] \in class \cup {"_"}

\* the digits of the greatest i64 in each radix
RefMaxDecimal == <<9, 2, 2, 3, 3, 7, 2, 0, 3, 6, 8, 5, 4, 7, 7, 5, 8, 0, 7>>

RECURSIVE RefDigitsLeq(_, _)
\* a <= b for digit sequences of the same length
RefDigitsLeq(a, b) ==
    IF a = << >> THEN TRUE
    ELSE IF Head(a) # Head(b) THEN Head(a) < Head(b)
    ELSE RefDigitsLeq(Tail(a), Tail(b))

\* the value of the literal is at most 2^63 - 1: fewer digits than the
\* greatest i64 has in that radix, or as many and not greater
RefInRange(lexeme) ==
    LET v == RefDigitValues(lexeme) IN
    CASE RefRadix(lexeme) = 10 -> Len(v) < 19 \/ (Len(v) = 19 /\ RefDigitsLeq(v, RefMaxDecimal))
      [] RefRadix(lexeme) = 16 -> Len(v) < 16 \/ (Len(v) = 16 /\ v[1] <= 7)
      [] RefRadix(lexeme) = 2 -> Len(v) <= 63

\* the first token of a finished run is the IntLit with the payload v
FirstIsIntLit(v) == Len(tokens) = 2 /\ tokens[1].kind = "IntLit" /\ tokens[1].value = v

\* C20: the payload of an IntLit is the value of its digits, underscores
\* removed, in base 10, base 16 behind 0x and base 2 behind 0b, for every
\* literal in the 64-bit signed range (0xFF = 255, 0b1010 = 10,
\* 1_000_000 = 1000000).
C20_IntLitValue ==
    /\ \A i \in 1..Len(tokens) :
          tokens[i].kind = "IntLit" =>
             /\ RefIsIntLiteral(tokens[i].lexeme)
             /\ RefRadix(tokens[i].lexeme) = 10 =>
                   StripZeros(LimbDigits(tokens[i].value)) = RefDigitValues(tokens[i].lexeme)
             /\ RefShort(tokens[i].lexeme) =>
                   tokens[i].value = <<RefPositional(RefDigits(tokens[i].lexeme), RefRadix(tokens[i].lexeme))>>
    /\ (pc = "done" /\ RefIsIntLiteral(input) /\ RefShort(input)) =>
          FirstIsIntLit(<<RefPositional(RefDigits(input), RefRadix(input))>>)
    /\ (pc = "done" /\ RefIsIntLiteral(input) /\ RefInRange(input)) =>
          Len(tokens) = 2 /\ tokens[1].kind = "IntLit"
    /\ (pc = "done" /\ input = NumberAfterString) =>
          Len(tokens) = 3 /\ tokens[2].kind = "IntLit" /\ tokens[2].value = <<10>>
    /\ (pc = "done" /\ input = HexFF) => FirstIsIntLit(<<255>>)
    /\ (pc = "done" /\ input = Bin1010) => FirstIsIntLit(<<10>>)
    /\ (pc = "done" /\ input = Million) => FirstIsIntLit(<<1000000>>)
    /\ (pc = "done" /\ input \in {DecMax, HexMax, BinMax}) =>
          FirstIsIntLit(<<54775807, 33720368, 922>>)

\* the literal with underscores of spec 5 has been read
C20_Witness == pc = "done" /\ input = Million /\ FirstIsIntLit(<<1000000>>)

\* C19: an integer literal whose value does not fit a 64-bit signed integer
\* is reported as an InvalidNumber fault carrying the literal's lexeme and a
\* reason, and scanning continues.
C19_OverflowIsInvalidNumber ==
    [][(NextIs({"IntLit", "Error"}) /\ RefIsIntLiteral(slice(NextMatch)) /\ ~RefInRange(slice(NextMatch))
            /\ error_count(error_manager) < 100) =>
          /\ StoredOne
          /\ LastFault'.kind = "InvalidNumber"
          /\ LastFault'.text = slice(NextMatch)
          /\ LastFault'.reason # ""
          /\ pc' = "scanning"
          /\ AbsOffset' = AbsOffset + Len(slice(NextMatch))
      ]_vars

\* the operator and delimiter spellings
RefSpellings == {t[1] : t \in FixedTokens}

\* the prefix of length n of s from the 0-based index i
RefPrefix(s, i, n) == SubSeq(s, i + 1, i + n)

\* the longest operator spelling s has at i: three characters are tried
\* before two, two before one
RefLongestOperator(s, i) ==
    IF i + 3 <= Len(s) /\ RefPrefix(s, i, 3) \in RefSpellings THEN RefPrefix(s, i, 3)
    ELSE IF i + 2 <= Len(s) /\ RefPrefix(s, i, 2) \in RefSpellings THEN RefPrefix(s, i, 2)
    ELSE RefPrefix(s, i, 1)

\* the operators the language names
RefOperatorNames ==
    { << <<"<", "<", "=">>, "LeftShiftEqual" >>, << <<"<", "<">>, "LeftShift" >>, << <<"<">>, "Less" >>,
      << <<">", ">", "=">>, "RightShiftEqual" >>, << <<">", ">">>, "RightShift" >>, << <<">">>, "Greater" >>,
      << <<"?", ".">>, "QuestionDot" >>, << <<"?">>, "Question" >>,
      << <<":", "=">>, "ColonEqual" >>, << <<":">>, "Colon" >> }

FixedKinds == {t[2] : t \in FixedTokens}

\* C21: whenever the automaton's next match is an operator or a delimiter,
\* the driver pushes one token whose lexeme is the longest operator spelling
\* the source has at that place and whose kind is the kind of that spelling
\* (so <<= is LeftShiftEqual, << LeftShift, < Less, ?. QuestionDot, := ColonEqual).
C21_LongestOperator ==
    [][NextIs(FixedKinds) =>
         /\ PushedOne
         /\ Pushed.lexeme = RefLongestOperator(input, TrueStart(NextMatch))
         /\ <<Pushed.lexeme, Pushed.kind>> \in FixedTokens
         /\ \A e \in RefOperatorNames : Pushed.lexeme = e[1] => Pushed.kind = e[2]
      ]_vars

\* <<= has been emitted as one token, a < behind it as another
C21_Witness ==
    /\ pc = "done" /\ input = ShiftAfterString /\ Len(tokens) = 4
    /\ tokens[2].kind = "LeftShiftEqual" /\ tokens[3].kind = "Less"

\* the index behind the longest run of word characters of s from the
\* 0-based index i, where a word starts
RefWordEnd(s, i) ==
    CHOOSE e \in (i + 1)..Len(s) :
        /\ \A k \in (i + 1)..e : s[k] \in Letters \cup Digits \cup {"_"}
        /\ e < Len(s) => s[e + 1] \notin Letters \cup Digits \cup {"_"}

RefWord(s, i) == SubSeq(s, i + 1, RefWordEnd(s, i))

\* the reserved words basic_tokens_test names
RefKeywordNames ==
    { << <<"f", "n">>, "Fn" >>, << <<"l", "e", "t">>, "Let" >>, << <<"m", "u", "t">>, "Mut" >>,
      << <<"c", "o", "n", "s", "t">>, "Const" >>, << <<"i", "f">>, "If" >>,
      << <<"e", "l", "i", "f">>, "Elif" >>, << <<"e", "l", "s", "e">>, "Else" >>,
      << <<"m", "a", "t", "c", "h">>, "Match" >>, << <<"w", "h", "e", "r", "e">>, "Where" >>,
      << <<"f", "o", "r">>, "For" >>, << <<"i", "n">>, "In" >>, << <<"w", "h", "i", "l", "e">>, "While" >>,
      << <<"l", "o", "o", "p">>, "Loop" >>, << <<"b", "r", "e", "a", "k">>, "Break" >>,
      << <<"c", "o", "n", "t", "i", "n", "u", "e">>, "Continue" >>,
      << <<"r", "e", "t", "u", "r", "n">>, "Return" >> }

\* the next match starts a word
NextIsWord ==
    /\ pc = "scanning" /\ NextMatches # {}
    /\ input[TrueStart(NextMatch) + 1] \in Letters \cup {"_"}

\* C22: whenever the automaton's next match starts with a letter or an
\* underscore, the driver pushes one token for the whole word (the longest run
\* of letters, digits and underscores); when the word is a spelling of the
\* keyword table the token's kind and the kind the automaton assigned both
\* equal get_keyword(word), otherwise the token is Ident(word) and
\* get_keyword(word) is None.
C22_KeywordOrIdent ==
    [][NextIsWord =>
         LET word == RefWord(input, TrueStart(NextMatch)) IN
         /\ PushedOne
         /\ Pushed.lexeme = word
         /\ IF \E e \in KEYWORDS : e[1] = word
            THEN /\ get_keyword(word).some
                 /\ Pushed.kind = get_keyword(word).kind
                 /\ NextMatch.kind = get_keyword(word).kind
                 /\ Pushed.kind # "Ident"
                 /\ <<word, Pushed.kind>> \in KEYWORDS
            ELSE /\ ~get_keyword(word).some
                 /\ NextMatch.kind = "Ident"
                 /\ Pushed.kind = "Ident"
                 /\ Pushed.value = word
         /\ \A e \in RefKeywordNames : (word = e[1]) <=> (Pushed.kind = e[2])
      ]_vars

\* for was emitted as a reserved word and format, behind it, as an identifier
C22_Witness ==
    /\ pc = "done" /\ input = ForFormat /\ Len(tokens) = 3
    /\ tokens[1].kind = "For" /\ tokens[2].kind = "Ident"
    /\ tokens[2].value = <<"f", "o", "r", "m", "a", "t">>

WellFormed(sp) == sp.start <= sp.end

\* C23: a.merge(b) starts at the smaller start, ends at the greater end and
\* keeps a's line and column; merging a span with itself gives the span,
\* merging the result with b again changes nothing, the byte range of
\* a.merge(b) is that of b.merge(a), and the result has start <= end when
\* a and b have.
C23_MergeCovers ==
    LET a == self_span
        b == other_span
    IN  /\ merged # << >> =>
              /\ merged[1].start <= a.start /\ merged[1].start <= b.start
              /\ merged[1].start \in {a.start, b.start}
              /\ merged[1].end >= a.end /\ merged[1].end >= b.end
              /\ merged[1].end \in {a.end, b.end}
              /\ merged[1].line = a.line /\ merged[1].column = a.column
              /\ merge(merged[1], b) = merged[1]
              /\ (WellFormed(a) /\ WellFormed(b)) => WellFormed(merged[1])
              /\ merge(b, a).start = merged[1].start /\ merge(b, a).end = merged[1].end
        /\ merge(a, a) = a

\* two overlapping spans of different lines have been merged into 0..3
C23_Witness ==
    /\ merged # << >>
    /\ self_span = Span(1, 3, 2, 1) /\ other_span = Span(0, 2, 1, 2)
    /\ merged[1] = Span(0, 3, 2, 1)

\* the line breaks among the first k characters of s
RefBreaks(s, k) == {j \in 1..k : s[j] = NL}

\* the 1-based line of the character behind the first k characters of s
RefLine(s, k) == 1 + Cardinality(RefBreaks(s, k))

\* its 1-based column: the characters since the last line break, plus one
RefColumn(s, k) ==
    IF RefBreaks(s, k) = {} THEN k + 1
    ELSE k + 1 - (CHOOSE j \in RefBreaks(s, k) : \A i \in RefBreaks(s, k) : i <= j)

\* C24: every token the driver holds, the Eof token aside, has a span whose
\* start is the byte offset of a character of the source and whose line and
\* column are the 1-based line and column of that character, blanks skipped
\* before the token counted.
C24_SpanLineColumn ==
    \A i \in 1..Len(tokens) :
        tokens[i].kind # "Eof" =>
            /\ IsCharBoundary(input, tokens[i].span.start)
            /\ tokens[i].span.line = RefLine(input, CharIndex(input, tokens[i].span.start))
            /\ tokens[i].span.column = RefColumn(input, CharIndex(input, tokens[i].span.start))

\* C25: a step taken while the logger is disabled writes nothing to the
\* standard error stream, whether it is a log call of any level,
\* formatted_error or report_all.
C25_DisabledIsSilent ==
    [][~LOGGER_ENABLED => stderr' = stderr]_vars

\* the lexeme has a point with a digit behind it
RefHasFraction(lexeme) ==
    \E k \in 1..Len(lexeme) :
        lexeme[k] = "." /\ \E j \in (k + 1)..Len(lexeme) : lexeme[j] \in Digits

\* the lexeme has an exponent: e or E, an optional sign, a digit
RefHasExponent(lexeme) ==
    \E k \in 1..(Len(lexeme) - 1) :
        /\ lexeme[k] \in {"e", "E"}
        /\ \/ lexeme[k + 1] \in Digits
           \/ lexeme[k + 1] \in {"+", "-"} /\ k + 2 <= Len(lexeme) /\ lexeme[k + 2] \in Digits

RefHasSuffix(lexeme) == lexeme[Len(lexeme)] \in {"f", "F"}

\* the next match starts with a digit
NextIsNumber ==
    /\ pc = "scanning" /\ NextMatches # {}
    /\ input[TrueStart(NextMatch) + 1] \in Digits

\* C26: whenever the automaton's next match starts with a digit and the
\* driver pushes a FloatLit or DoubleLit token for it, the lexeme has a
\* non-empty fractional part or an exponent part, and the token is a FloatLit
\* exactly when the lexeme ends in f or F; a literal that has such a part is
\* pushed as FloatLit or DoubleLit.
C26_FloatOrDouble ==
    [][(NextIsNumber /\ PushedOne) =>
         /\ Pushed.kind \in {"FloatLit", "DoubleLit"} =>
               /\ RefHasFraction(Pushed.lexeme) \/ RefHasExponent(Pushed.lexeme)
               /\ (Pushed.kind = "FloatLit") <=> RefHasSuffix(Pushed.lexeme)
         /\ (RefHasFraction(Pushed.lexeme) \/ RefHasExponent(Pushed.lexeme)) =>
               Pushed.kind \in {"FloatLit", "DoubleLit"}
      ]_vars

\* the byte offset, in the original source, where the match m starts
TrueOffset(m) == ByteOffset(input, TrueStart(m))

\* a token was pushed by the step
PushedAny == Len(tokens') = Len(tokens) + 1

\* a fault was stored by the step
StoredAny == error_count(error_manager') = error_count(error_manager) + 1

\* C27: at every sentinel match the scanner is started at the byte offset the
\* sentinel has in the original source and with the driver's line and
\* column: a token it returns has that start, line and column and a lexeme
\* that begins with the sentinel, and an unterminated-construct fault it
\* returns starts there too.
C27_DelegateStartsAtSentinel ==
    [][NextIs(Sentinels) =>
         /\ DelegateStart(NextMatch) = TrueOffset(NextMatch)
         /\ PushedAny =>
               /\ Pushed.span.start = TrueOffset(NextMatch)
               /\ Pushed.span.line = line
               /\ Pushed.span.column = column
               /\ Len(Pushed.lexeme) >= Len(slice(NextMatch))
               /\ SubSeq(Pushed.lexeme, 1, Len(slice(NextMatch))) = slice(NextMatch)
         /\ (StoredAny /\ LastFault'.kind \in {"UnterminatedString", "UnterminatedBlockComment"}) =>
               /\ LastFault'.span.start = TrueOffset(NextMatch)
               /\ LastFault'.span.line = line
               /\ LastFault'.span.column = column
      ]_vars

\* what the scanner of the next sentinel returns
HandOffResult == Delegate(NextMatch.kind, input, DelegateStart(NextMatch), line, column)

\* C28: after every successful delegated scan the driver's position, line
\* and column are the cursor the scanner returned, the automaton is anchored
\* at that byte offset of the original source, and that offset lies behind
\* the sentinel, so that nothing from the sentinel's start on is matched again.
C28_ReanchoredBehindConstruct ==
    [][(NextIs(Sentinels) /\ HandOffResult.tag = "Ok" /\ pc' = "scanning") =>
         /\ position' = HandOffResult.pos
         /\ line' = HandOffResult.line
         /\ column' = HandOffResult.column
         /\ logos_lex' = NewLogosLexer(position')
         /\ AbsOffset' = position'
         /\ AbsOffset' >= TrueOffset(NextMatch) + ByteLen(slice(NextMatch))
         /\ PushedAny => Pushed.span.end = position'
      ]_vars

\* where the scanner's cursor stood when it returned the fault: at the
\* escaped character for an InvalidEscape, else at the end of the fault's span
RefFaultCursor(err) == IF err.kind = "InvalidEscape" THEN err.span.end - 1 ELSE err.span.end

\* C29: when the scanner of a sentinel returns a fault (and the cap is not
\* reached), the driver stores that fault, pushes no token, and moves its
\* position and the automaton to the offset where the scanner's cursor
\* stopped.
C29_ResumeBehindFault ==
    [][(NextIs(Sentinels) /\ HandOffResult.tag = "Err" /\ error_count(error_manager) < 100) =>
         /\ StoredOne
         /\ LastFault' = HandOffResult.err
         /\ tokens' = tokens
         /\ position' = RefFaultCursor(HandOffResult.err)
         /\ AbsOffset' = RefFaultCursor(HandOffResult.err)
      ]_vars

\* C30: a turn on a classification failure stores one UnexpectedChar fault
\* with the first character of the failing lexeme and the generic suggestion
\* (none when 100 faults are stored already), pushes one error token whose
\* span is the byte range of the failing lexeme in the source, moves the
\* automaton and the driver's position past the lexeme, and leaves the
\* driver scanning.
C30_FailureIsRecorded ==
    [][(pc = "scanning" /\ \E m \in NextMatches : m.kind = "Error") =>
         \E m \in NextMatches :
             /\ IF error_count(error_manager) < 100
                THEN /\ StoredOne
                     /\ LastFault'.kind = "UnexpectedChar"
                     /\ LastFault'.ch = input[TrueStart(m) + 1]
                     /\ LastFault'.suggestion = "Remove this character or check for typos"
                     /\ LastFault'.span = Pushed.span
                ELSE error_manager' = error_manager
             /\ PushedOne
             /\ Pushed.kind = "Error"
             /\ Pushed.span.start = TrueOffset(m)
             /\ Pushed.span.end = TrueOffset(m) + ByteLen(slice(m))
             /\ AbsOffset' = TrueOffset(m) + ByteLen(slice(m))
             /\ position' = position + ByteLen(slice(m))
             /\ pc' = "scanning"
      ]_vars

\* the character index behind the verbatim string or block comment the next
\* sentinel opens, as the language defines it; -1 when it is not closed
RefDelegatedEnd ==
    IF NextMatch.kind = "BlockCommentStart"
    THEN Max(RefBlockScan(input, TrueStart(NextMatch) + 2, 1), 0 - 1)
    ELSE LET r == RefVerbatim(input, TrueStart(NextMatch) + 2, << >>)
         IN  IF r.tag = "Ok" THEN r.end ELSE 0 - 1

\* the line breaks among the characters a+1..b of the input
RefBreaksBetween(a, b) == Cardinality({k \in (a + 1)..b : input[k] = NL})

\* C31: a closed verbatim string or block comment, multi-byte characters
\* included, is scanned without abort; the cursor returned is the byte
\* offset just behind its closing delimiter, a token it yields spans the
\* bytes from the sentinel to that offset and holds the characters of the
\* source, and line and column advance by characters, not bytes.
C31_BytesAndCharactersApart ==
    [][(NextIs({"BlockCommentStart", "VerbatimStringStart"}) /\ RefDelegatedEnd >= 0) =>
         /\ pc' = "scanning"
         /\ position' = ByteOffset(input, RefDelegatedEnd)
         /\ AbsOffset' = ByteOffset(input, RefDelegatedEnd)
         /\ PushedAny =>
               /\ Pushed.span.start = TrueOffset(NextMatch)
               /\ Pushed.span.end = ByteOffset(input, RefDelegatedEnd)
               /\ Pushed.value = RefVerbatim(input, TrueStart(NextMatch) + 2, << >>).content
         /\ line' = line + RefBreaksBetween(TrueStart(NextMatch), RefDelegatedEnd)
         /\ RefBreaksBetween(TrueStart(NextMatch), RefDelegatedEnd) = 0 =>
               column' = column + (RefDelegatedEnd - TrueStart(NextMatch))
      ]_vars

\* C32: in a success output every span lies inside the source with
\* start <= end, and each token ends no later than the next one starts.
C32_OrderedSpans ==
    (pc = "done" /\ result.tag = "Ok") =>
        /\ \A i \in 1..Len(result.tokens) :
              /\ result.tokens[i].span.start <= result.tokens[i].span.end
              /\ result.tokens[i].span.end <= ByteLen(input)
        /\ \A i \in 1..(Len(result.tokens) - 1) :
              result.tokens[i].span.end <= result.tokens[i + 1].span.start

\* what one fault looks like in a report: the shared format, then the
\* suggestion line when the fault has a suggestion
RefEntry(em, k) ==
    LET f == em.lexical_errors[k] IN
    formatted_error(TRUE, f, f.span, em.source)
        \o (IF suggestion(f) = << >> THEN << >>
            ELSE << <<"   ", YELLOW, "Suggestion:", RESET, " ">> \o suggestion(f) >>)

RECURSIVE RefEntries(_, _)
\* the first n entries, one empty line between two of them
RefEntries(em, n) ==
    IF n = 0 THEN << >>
    ELSE IF n = 1 THEN RefEntry(em, 1)
    ELSE RefEntries(em, n - 1) \o << << >> >> \o RefEntry(em, n)

\* the report of a manager with the logger enabled: nothing for an empty
\* manager, else the count line and the entries
RefReport(em) ==
    IF error_count(em) = 0 THEN << >>
    ELSE << <<RED, "[", "ERROR", "]", RESET, " ", NL, ToString(error_count(em)), " lexical error(s) found:">> >>
             \o RefEntries(em, error_count(em))

\* C34: with the logger enabled report_all writes the faults in insertion
\* order, each in the shared format and followed by its suggestion when it
\* has one, with one empty line between two entries and none behind the
\* last; it writes nothing for an empty manager and leaves the faults alone.
C34_ReportInOrder ==
    [][(LOGGER_ENABLED /\ ReportAll) =>
         /\ stderr' = stderr \o RefReport(error_manager)
         /\ error_manager' = error_manager
      ]_vars

\* a report of two faults, the first with a suggestion and the second
\* without, has been written with the logger enabled
C34_Witness ==
    /\ LOGGER_ENABLED
    /\ error_count(error_manager) = 2
    /\ suggestion(error_manager.lexical_errors[1]) # << >>
    /\ suggestion(error_manager.lexical_errors[2]) = << >>
    /\ stderr = RefReport(error_manager)
    /\ Len(stderr) = 13
    /\ stderr[8] = << >>

\* C35: take_errors returns the stored faults in insertion order and leaves
\* the manager as a fresh one on the same source (no faults, count 0, cap
\* 100), so that faults are accepted again; and in every state has_errors
\* is true exactly when error_count is positive.
C35_TakeErrorsDrains ==
    /\ [][TakeErrors =>
            /\ taken' = <<error_manager.lexical_errors>>
            /\ ~has_errors(error_manager')
            /\ error_count(error_manager') = 0
            /\ error_manager' = NewErrorManager(error_manager.source)
            /\ \A f \in SampleFaults :
                  add_lexical_error(error_manager', f).lexical_errors = <<f>>
         ]_vars
    /\ [](has_errors(error_manager) <=> error_count(error_manager) > 0)

\* two faults were taken in the order they were added, and a fault has been
\* added to the drained manager since
C35_Witness ==
    /\ taken # << >>
    /\ Len(taken[1]) = 2
    /\ taken[1][1].kind = "UnexpectedChar"
    /\ taken[1][2].kind = "InvalidNumber"
    /\ error_count(error_manager) = 1
    /\ has_errors(error_manager)

\* the indices of the line breaks of s
RefBreakAt(s) == {k \in 1..Len(s) : s[k] = NL}

\* the number of lines of s: one per line break, and one more for text
\* behind the last break
RefLineCount(s) ==
    Cardinality(RefBreakAt(s)) + (IF s # << >> /\ s[Len(s)] # NL THEN 1 ELSE 0)

\* line n of s (1 <= n <= RefLineCount(s)): the characters between the
\* break before it and its own break, without the carriage return of a
\* CR LF break
RefNthLine(s, n) ==
    LET before == {k \in RefBreakAt(s) : Cardinality({j \in RefBreakAt(s) : j < k}) = n - 2}
        own == {k \in RefBreakAt(s) : Cardinality({j \in RefBreakAt(s) : j < k}) = n - 1}
        from == IF n = 1 THEN 1 ELSE (CHOOSE k \in before : TRUE) + 1
        to == IF own = {} THEN Len(s) ELSE (CHOOSE k \in own : TRUE) - 1
        cut == IF own # {} /\ to >= from /\ s[to] = CR THEN to - 1 ELSE to
    IN  SubSeq(s, from, cut)

\* the text a diagnostic shows for line n of s
RefShownLine(s, n) == IF n >= 1 /\ n <= RefLineCount(s) THEN RefNthLine(s, n) ELSE << >>

\* the number right-aligned in a field of three characters
RefNumbered(n) ==
    LET width == IF n < 10 THEN 1 ELSE IF n < 100 THEN 2 ELSE 3
    IN  Spaces(3 - width) \o <<ToString(n)>>

C37_InterpolatedVerbatimParts ==
    [][/\ (NextIs({"InterpolatedVerbatimStart"})
            /\ RefInterpolatedVerbatim(input, TrueStart(NextMatch) + 3, << >>, << >>).tag = "Ok") =>
             LET ref == RefInterpolatedVerbatim(input, TrueStart(NextMatch) + 3, << >>, << >>) IN
             /\ PushedOne
             /\ Pushed.kind = "InterpolatedString"
             /\ Pushed.value = ref.parts
             /\ error_manager' = error_manager
             /\ AbsOffset' = ByteOffset(input, ref.end)
       /\ (input = UsersDocuments /\ pc' = "done") =>
             /\ result'.tag = "Ok"
             /\ tokens'[1].value = << TextPart(<<"C", ":", BSLASH, "U", "s", "e", "r", "s", BSLASH>>),
                                      ExprPart(<<"u", "s", "e", "r", "n", "a", "m", "e">>),
                                      TextPart(<<BSLASH, "D", "o", "c", "u", "m", "e", "n", "t", "s">>) >>
       /\ (input = DoubledQuoteInterpolated /\ pc' = "done") =>
             tokens'[1].value = << TextPart(<<"a", QUOTE>>), ExprPart(<<"b">>),
                                   TextPart(<<QUOTE, BSLASH, "n", NL>>) >>
      ]_vars

\* C38: when tokenize has finished the last token is Eof with an empty span
\* at the byte length of the source and with the line and column of the
\* position behind the last character, blanks between tokens included.
C38_EofAtEnd ==
    pc = "done" =>
        LET eof == tokens[Len(tokens)] IN
        /\ eof.kind = "Eof"
        /\ eof.span.start = ByteLen(input)
        /\ eof.span.end = ByteLen(input)
        /\ eof.span.line = RefLine(input, Len(input))
        /\ eof.span.column = RefColumn(input, Len(input))

\* C39: the driver never holds a Comment or Newline token, holds an error
\* token only together with a recorded fault, and a success output
\* therefore holds none of the three.
C39_NoErrorCommentNewline ==
    /\ \A i \in 1..Len(tokens) : tokens[i].kind \notin {"Comment", "Newline", "LineComment"}
    /\ (\E i \in 1..Len(tokens) : tokens[i].kind = "Error") => has_errors(error_manager)
    /\ (pc = "done" /\ result.tag = "Ok") =>
          \A i \in 1..Len(result.tokens) :
              result.tokens[i].kind \notin {"Error", "Comment", "Newline"}

\* a success output of an input with a line comment, a block comment and
\* line breaks: the word and Eof
C39_Witness ==
    /\ pc = "done"
    /\ input = CommentsAndBreaks
    /\ result.tag = "Ok"
    /\ Len(result.tokens) = 2
    /\ result.tokens[1].kind = "Ident"

\* C40: in every InterpolatedString token the driver holds no Text part is
\* empty and no Text part follows a Text part.
C40_TextPartsSeparated ==
    \A i \in 1..Len(tokens) :
        tokens[i].kind = "InterpolatedString" =>
            LET parts == tokens[i].value IN
            /\ \A k \in 1..Len(parts) : parts[k].tag = "Text" => parts[k].text # << >>
            /\ \A k \in 1..(Len(parts) - 1) : ~(parts[k].tag = "Text" /\ parts[k + 1].tag = "Text")

\* an interpolated string was pushed whose parts are an empty Expr, an
\* Expr right behind it, a Text and an Expr
C40_Witness ==
    /\ Len(tokens) >= 1
    /\ tokens[1].kind = "InterpolatedString"
    /\ tokens[1].value = << ExprPart(<< >>), ExprPart(<<"a">>), TextPart(<<"b">>), ExprPart(<<"c">>) >>

RECURSIVE RunAlone(_)
\* the states in which tokenize can end when the instance d runs on its own
RunAlone(d) ==
    IF d.pc # "scanning" THEN {d} ELSE UNION {RunAlone(e) : e \in TurnsOf(d)}

====
